---- MODULE Spec2Model ----
(***************************************************************************)
(* Model of the GHCN weather-station metric cache:                         *)
(*   app/ghcn_dly.py  - fixed-width record parser, season classifier and   *)
(*                      aggregator (compute_means)                         *)
(*   app/cache.py     - population protocol (ensure_cached_metrics) and    *)
(*                      dense reader (load_cached_series)                  *)
(*   app/db.py        - station_metric_cache table                         *)
(*   app/main.py      - consumer flow api_station_series                   *)
(*                                                                         *)
(* Numbers: a temperature is kept in tenths of a degree (the raw field of  *)
(* the file); a mean is the exact fraction <<num, den>> in lowest terms    *)
(* (degrees), where the code holds an IEEE double.                         *)
(***************************************************************************)
EXTENDS Integers, Sequences, FiniteSets, TLC

\* ------------------------------------------------------------------------
\* Values shared by all parts
\* ------------------------------------------------------------------------

\* Python's None / SQL NULL: the empty tuple, where a value is a tuple
None == <<>>

\* A numeric field of a line is <<n>> when int() parses it to n, and BAD
\* when int() raises ValueError on its text
BAD == <<>>
Malformed(field) == field = BAD
int(field) == field[1]

\* ------------------------------------------------------------------------
\* calendar (Python standard library, as used by ghcn_dly.py)
\* ------------------------------------------------------------------------

isleap(year) == year % 4 = 0 /\ (year % 100 # 0 \/ year % 400 = 0)

\* calendar.monthrange(year, month) raises IllegalMonthError outside 1..12
IllegalMonth(month) == month \notin 1..12

\* calendar.monthrange(year, month)[1] for a legal month
monthrange(year, month) ==
    CASE month \in {1, 3, 5, 7, 8, 10, 12} -> 31
      [] month \in {4, 6, 9, 11} -> 30
      [] month = 2 -> IF isleap(year) THEN 29 ELSE 28

\* ------------------------------------------------------------------------
\* Season classifier
\* ------------------------------------------------------------------------

\* a variant: December stays in its own year's winter
_season_key_same_year(year, month) ==
    CASE month \in {3, 4, 5} -> <<year, "spring">>
      [] month \in {6, 7, 8} -> <<year, "summer">>
      [] month \in {9, 10, 11} -> <<year, "autumn">>
      [] month \in {12, 1, 2} -> <<year, "winter">>
      [] OTHER -> None

_season_key(year, month) ==
    CASE month \in {3, 4, 5} -> <<year, "spring">>
      [] month \in {6, 7, 8} -> <<year, "summer">>
      [] month \in {9, 10, 11} -> <<year, "autumn">>
      [] month = 12 -> <<year + 1, "winter">>
      [] month \in {1, 2} -> <<year, "winter">>
      [] OTHER -> None

_expected_days_year(year) == IF isleap(year) THEN 366 ELSE 365

SeasonMonths(season) ==
    CASE season = "spring" -> <<3, 4, 5>>
      [] season = "summer" -> <<6, 7, 8>>
      [] season = "autumn" -> <<9, 10, 11>>
      [] season = "winter" -> <<12, 1, 2>>

\* a variant: the whole winter taken from the year before
SeasonBaseYearsBefore(year, season) ==
    IF season = "winter" THEN <<year - 1, year - 1, year - 1>> ELSE <<year, year, year>>

SeasonBaseYears(year, season) ==
    IF season = "winter" THEN <<year - 1, year, year>> ELSE <<year, year, year>>

_expected_days_season(year, season) ==
    LET months == SeasonMonths(season)
        base_years == SeasonBaseYears(year, season)
    IN  monthrange(base_years[1], months[1])
          + monthrange(base_years[2], months[2])
          + monthrange(base_years[3], months[3])

\* ------------------------------------------------------------------------
\* Exact fractions for the means
\* ------------------------------------------------------------------------

Abs(x) == IF x < 0 THEN 0 - x ELSE x

RECURSIVE Gcd(_, _)
Gcd(a, b) == IF b = 0 THEN a ELSE Gcd(b, a % b)

\* num / den in lowest terms, den > 0
Frac(num, den) ==
    LET g == Gcd(Abs(num), den)
    IN  <<num \div g, den \div g>>

\* ------------------------------------------------------------------------
\* Record parser and aggregator: compute_means
\*
\* A file is a sequence of lines.  A line is a record
\*   [len, year, month, element, slots]
\* len     the number of characters of the line
\* year    int(line[11:15]), or BAD when int() raises
\* month   int(line[15:17]), or BAD
\* element line[17:21]
\* slots   the day groups, slots[d] = [raw |-> int(line[base:base+5]) or BAD,
\*                                    qflag |-> line[base+6]]
\* ------------------------------------------------------------------------

HeaderLen == 21
SlotLen == 8
DaysPerLine == 31

\* lines 129-132; raised is set when the pass is aborted by a ValueError
EmptyAcc ==
    [yearly_sum |-> <<>>, yearly_count |-> <<>>,
     seasonal_sum |-> <<>>, seasonal_count |-> <<>>, raised |-> FALSE]

\* a variant: the ValueError is caught and the line is left
Swallow(acc) == acc

Raise(acc) == [acc EXCEPT !.raised = TRUE]

\* dict.get(k, 0)
Get(d, k) == IF k \in DOMAIN d THEN d[k] ELSE 0

\* d[k] = v
Put(d, k, v) == [x \in DOMAIN d \cup {k} |-> IF x = k THEN v ELSE d[x]]

\* a variant: the seasonal bucket is restricted by the year of the line,
\* not by the year of the bucket
AddSampleByLineYear(acc, element, year, season, raw, start_year, end_year) ==
    LET k == <<element, year>>
        a1 == IF start_year <= year /\ year <= end_year
              THEN [acc EXCEPT
                      !.yearly_sum = Put(@, k, Get(@, k) + raw),
                      !.yearly_count = Put(@, k, Get(@, k) + 1)]
              ELSE acc
    IN  IF season # None /\ start_year <= year /\ year <= end_year
        THEN LET k2 == <<element, season[1], season[2]>>
             IN  [a1 EXCEPT
                    !.seasonal_sum = Put(@, k2, Get(@, k2) + raw),
                    !.seasonal_count = Put(@, k2, Get(@, k2) + 1)]
        ELSE a1

\* lines 163-175: one valid sample of value raw (tenths) is accumulated
AddSample(acc, element, year, season, raw, start_year, end_year) ==
    LET k == <<element, year>>
        a1 == IF start_year <= year /\ year <= end_year
              THEN [acc EXCEPT
                      !.yearly_sum = Put(@, k, Get(@, k) + raw),
                      !.yearly_count = Put(@, k, Get(@, k) + 1)]
              ELSE acc
    IN  IF season # None /\ start_year <= season[1] /\ season[1] <= end_year
        THEN LET k2 == <<element, season[1], season[2]>>
             IN  [a1 EXCEPT
                    !.seasonal_sum = Put(@, k2, Get(@, k2) + raw),
                    !.seasonal_count = Put(@, k2, Get(@, k2) + 1)]
        ELSE a1

\* a variant: the day is not compared with the length of the month
RECURSIVE ScanDaysAnyDay(_, _, _, _, _, _)
ScanDaysAnyDay(acc, line, day, season, start_year, end_year) ==
    IF day > DaysPerLine THEN acc
    ELSE LET base == HeaderLen + (day - 1) * SlotLen
         IN  IF base + SlotLen > line.len THEN acc
             ELSE LET slot == line.slots[day]
                  IN  IF Malformed(slot.raw) THEN Raise(acc)
                      ELSE IF int(slot.raw) = -9999 \/ slot.qflag # " "
                      THEN ScanDaysAnyDay(acc, line, day + 1, season, start_year, end_year)
                      ELSE IF IllegalMonth(int(line.month))
                      THEN ScanDaysAnyDay(acc, line, day + 1, season, start_year, end_year)
                      ELSE LET added == AddSample(acc, line.element, int(line.year),
                                                  season, int(slot.raw),
                                                  start_year, end_year)
                           IN  IF added.raised THEN added
                               ELSE ScanDaysAnyDay(added, line, day + 1, season,
                                       start_year, end_year)

\* a variant: IllegalMonthError is not caught and leaves the function
RECURSIVE ScanDaysStrictMonth(_, _, _, _, _, _)
ScanDaysStrictMonth(acc, line, day, season, start_year, end_year) ==
    IF day > DaysPerLine THEN acc
    ELSE LET base == HeaderLen + (day - 1) * SlotLen
         IN  IF base + SlotLen > line.len THEN acc
             ELSE LET slot == line.slots[day]
                  IN  IF Malformed(slot.raw) THEN Raise(acc)
                      ELSE IF int(slot.raw) = -9999 \/ slot.qflag # " "
                      THEN ScanDaysStrictMonth(acc, line, day + 1, season, start_year, end_year)
                      ELSE IF IllegalMonth(int(line.month))
                      THEN Raise(acc)
                      ELSE IF day > monthrange(int(line.year), int(line.month))
                      THEN ScanDaysStrictMonth(acc, line, day + 1, season, start_year, end_year)
                      ELSE LET added == AddSample(acc, line.element, int(line.year),
                                                  season, int(slot.raw),
                                                  start_year, end_year)
                           IN  IF added.raised THEN added
                               ELSE ScanDaysStrictMonth(added, line, day + 1, season,
                                       start_year, end_year)

\* a variant: the quality flag is not looked at
RECURSIVE ScanDaysAnyFlag(_, _, _, _, _, _)
ScanDaysAnyFlag(acc, line, day, season, start_year, end_year) ==
    IF day > DaysPerLine THEN acc
    ELSE LET base == HeaderLen + (day - 1) * SlotLen
         IN  IF base + SlotLen > line.len THEN acc
             ELSE LET slot == line.slots[day]
                  IN  IF Malformed(slot.raw) THEN Raise(acc)
                      ELSE IF int(slot.raw) = -9999
                      THEN ScanDaysAnyFlag(acc, line, day + 1, season, start_year, end_year)
                      ELSE IF IllegalMonth(int(line.month))
                      THEN ScanDaysAnyFlag(acc, line, day + 1, season, start_year, end_year)
                      ELSE IF day > monthrange(int(line.year), int(line.month))
                      THEN ScanDaysAnyFlag(acc, line, day + 1, season, start_year, end_year)
                      ELSE LET added == AddSample(acc, line.element, int(line.year),
                                                  season, int(slot.raw),
                                                  start_year, end_year)
                           IN  IF added.raised THEN added
                               ELSE ScanDaysAnyFlag(added, line, day + 1, season,
                                       start_year, end_year)

\* lines 148-175: the day loop of one line, from slot `day` on.
\* Yields the accumulators, raised when a raw field is malformed.  A
\* sample is added to the sums before the next day is looked at.
RECURSIVE ScanDays(_, _, _, _, _, _)
ScanDays(acc, line, day, season, start_year, end_year) ==
    IF day > DaysPerLine THEN acc
    ELSE LET base == HeaderLen + (day - 1) * SlotLen
         IN  IF base + SlotLen > line.len THEN acc
             ELSE LET slot == line.slots[day]
                  IN  IF Malformed(slot.raw) THEN Raise(acc)
                      ELSE IF int(slot.raw) = -9999 \/ slot.qflag # " "
                      THEN ScanDays(acc, line, day + 1, season, start_year, end_year)
                      ELSE IF IllegalMonth(int(line.month))
                      THEN ScanDays(acc, line, day + 1, season, start_year, end_year)
                      ELSE IF day > monthrange(int(line.year), int(line.month))
                      THEN ScanDays(acc, line, day + 1, season, start_year, end_year)
                      ELSE LET added == AddSample(acc, line.element, int(line.year),
                                                  season, int(slot.raw),
                                                  start_year, end_year)
                           IN  IF added.raised THEN added
                               ELSE ScanDays(added, line, day + 1, season,
                                       start_year, end_year)

\* a variant: the scan window is not widened to start_year - 1
ScanLineNarrow(acc, line, start_year, end_year, elements) ==
    IF line.len < HeaderLen THEN acc
    ELSE IF Malformed(line.year) THEN Raise(acc)
    ELSE IF Malformed(line.month) THEN Raise(acc)
    ELSE IF line.element \notin elements THEN acc
    ELSE IF int(line.year) < start_year \/ int(line.year) > end_year THEN acc
    ELSE ScanDays(acc, line, 1, _season_key(int(line.year), int(line.month)),
                  start_year, end_year)

\* a variant: the element is not looked at
ScanLineAnyElement(acc, line, start_year, end_year, elements) ==
    IF line.len < HeaderLen THEN acc
    ELSE IF Malformed(line.year) THEN Raise(acc)
    ELSE IF Malformed(line.month) THEN Raise(acc)
    ELSE IF int(line.year) < start_year - 1 \/ int(line.year) > end_year THEN acc
    ELSE ScanDays(acc, line, 1, _season_key(int(line.year), int(line.month)),
                  start_year, end_year)

\* lines 136-175: one line of the file
ScanLine(acc, line, start_year, end_year, elements) ==
    IF line.len < HeaderLen THEN acc
    ELSE IF Malformed(line.year) THEN Raise(acc)
    ELSE IF Malformed(line.month) THEN Raise(acc)
    ELSE IF line.element \notin elements THEN acc
    ELSE IF int(line.year) < start_year - 1 \/ int(line.year) > end_year THEN acc
    ELSE ScanDays(acc, line, 1, _season_key(int(line.year), int(line.month)),
                  start_year, end_year)

\* lines 134-175: the pass over the file; the first error aborts it
RECURSIVE ScanFile(_, _, _, _, _, _)
ScanFile(acc, file, i, start_year, end_year, elements) ==
    IF i > Len(file) THEN acc
    ELSE LET a == ScanLine(acc, file[i], start_year, end_year, elements)
         IN  IF a.raised THEN a
             ELSE ScanFile(a, file, i + 1, start_year, end_year, elements)

\* a variant: `mean or 0.0`, an absent mean written as zero
MeanPointZeroed(year, sum, cnt, expected_days) ==
    [year |-> year,
     value_c |-> IF cnt # 0 THEN Frac(sum, 10 * cnt) ELSE <<0, 1>>,
     present_days |-> cnt,
     expected_days |-> expected_days]

\* MeanPoint(year, value_c, present_days, expected_days); sum in tenths
MeanPoint(year, sum, cnt, expected_days) ==
    [year |-> year,
     value_c |-> IF cnt # 0 THEN Frac(sum, 10 * cnt) ELSE None,
     present_days |-> cnt,
     expected_days |-> expected_days]

Seasons == <<"spring", "summer", "autumn", "winter">>

\* element.lower()
Lower(element) ==
    CASE element = "TMIN" -> "tmin"
      [] element = "TMAX" -> "tmax"

\* f"{el}_{suffix}"
MetricKey(el, suffix) ==
    CASE el = "tmin" /\ suffix = "year" -> "tmin_year"
      [] el = "tmax" /\ suffix = "year" -> "tmax_year"
      [] el = "tmin" /\ suffix = "spring" -> "tmin_spring"
      [] el = "tmax" /\ suffix = "spring" -> "tmax_spring"
      [] el = "tmin" /\ suffix = "summer" -> "tmin_summer"
      [] el = "tmax" /\ suffix = "summer" -> "tmax_summer"
      [] el = "tmin" /\ suffix = "autumn" -> "tmin_autumn"
      [] el = "tmax" /\ suffix = "autumn" -> "tmax_autumn"
      [] el = "tmin" /\ suffix = "winter" -> "tmin_winter"
      [] el = "tmax" /\ suffix = "winter" -> "tmax_winter"

\* a variant: range(start_year, end_year), the last year left out
YearSeriesShort(acc, element, start_year, end_year) ==
    [i \in 1..(end_year - start_year) |->
        LET y == start_year + i - 1
            k == <<element, y>>
        IN  MeanPoint(y, Get(acc.yearly_sum, k), Get(acc.yearly_count, k),
                      _expected_days_year(y))]

\* lines 183-187: the yearly series of one element
YearSeries(acc, element, start_year, end_year) ==
    [i \in 1..(end_year - start_year + 1) |->
        LET y == start_year + i - 1
            k == <<element, y>>
        IN  MeanPoint(y, Get(acc.yearly_sum, k), Get(acc.yearly_count, k),
                      _expected_days_year(y))]

\* lines 192-198: one seasonal series of one element
SeasonSeries(acc, element, season, start_year, end_year) ==
    [i \in 1..(end_year - start_year + 1) |->
        LET y == start_year + i - 1
            k == <<element, y, season>>
        IN  MeanPoint(y, Get(acc.seasonal_sum, k), Get(acc.seasonal_count, k),
                      _expected_days_season(y, season))]

\* lines 177-200: the output dict, metric key -> list of MeanPoint
EmitSeries(acc, start_year, end_year, elements) ==
    LET keys == {MetricKey(Lower(e), "year") : e \in elements}
                  \cup {MetricKey(Lower(e), Seasons[s]) :
                          e \in elements, s \in DOMAIN Seasons}
    IN  [key \in keys |->
           LET e == CHOOSE x \in elements :
                      \/ key = MetricKey(Lower(x), "year")
                      \/ \E s \in DOMAIN Seasons : key = MetricKey(Lower(x), Seasons[s])
           IN  IF key = MetricKey(Lower(e), "year")
               THEN YearSeries(acc, e, start_year, end_year)
               ELSE LET s == CHOOSE s \in DOMAIN Seasons :
                               key = MetricKey(Lower(e), Seasons[s])
                    IN  SeasonSeries(acc, e, Seasons[s], start_year, end_year)]

\* compute_means(dly_path, start_year, end_year, elements) on the file's
\* content: [raised |-> TRUE] when a ValueError leaves it, else the series
compute_means(file, start_year, end_year, elements) ==
    LET acc == ScanFile(EmptyAcc, file, 1, start_year, end_year, elements)
    IN  IF acc.raised THEN [raised |-> TRUE, series |-> <<>>]
        ELSE [raised |-> FALSE,
              series |-> EmitSeries(acc, start_year, end_year, elements)]

\* ------------------------------------------------------------------------
\* The cache: table station_metric_cache, ensure_cached_metrics,
\* load_cached_series, and the consumer flow api_station_series
\* ------------------------------------------------------------------------

ALL_METRICS ==
    <<"tmin_year", "tmax_year", "tmin_spring", "tmax_spring", "tmin_summer",
      "tmax_summer", "tmin_autumn", "tmax_autumn", "tmin_winter", "tmax_winter">>

\* elements={"TMIN", "TMAX"} of the call in ensure_cached_metrics
Elements == {"TMIN", "TMAX"}

\* --- bounds of the model ---

\* requests served in one behaviour
MaxCalls == 2
\* the year ranges requested lie in FirstYear .. FirstYear + 1
FirstYear == 2000
\* lines of a file whose parse is followed line by line
MaxLines == 2

\* concurrent request handlers (threads or processes of the service)
Procs == {1, 2}
NoProc == 0
Years == {FirstYear, FirstYear + 1}
Stations == {"A", "B"}

\* the content hashes ensure_station_dly can hand out for a station (the
\* versions of its .dly file), and the file behind each hash: the hash is
\* the sha256 of the file's bytes
HashesOf(station_id) ==
    IF station_id = "A" THEN {"h1", "h2"} ELSE {"h1", "h3", "h4"}
Hashes == UNION {HashesOf(s) : s \in Stations}

Slot(raw) == [raw |-> <<raw>>, qflag |-> " "]
Flagged(raw) == [raw |-> <<raw>>, qflag |-> "X"]
Garbled == [raw |-> BAD, qflag |-> " "]

Line(year, month, element, slots) ==
    [len |-> HeaderLen + SlotLen * Len(slots) + 1,
     year |-> <<year>>, month |-> <<month>>, element |-> element, slots |-> slots]

\* line[:n]: the line cut after n characters
Cut(line, n) == [line EXCEPT !.len = n]

\* a line whose year or month field is no number
BadYear(line) == [line EXCEPT !.year = BAD]
BadMonth(line) == [line EXCEPT !.month = BAD]

\* versions of a station's .dly file
FileH1 ==
    << Line(FirstYear - 1, 12, "TMAX", <<Slot(-50), Slot(-9999)>>),
       Line(FirstYear, 1, "TMAX", <<Slot(100), Slot(200), Slot(-9999), Flagged(500)>>),
       Line(FirstYear, 7, "TMIN", <<Slot(121), Slot(144)>>),
       Line(FirstYear, 7, "PRCP", <<Slot(7)>>),
       Line(FirstYear + 1, 4, "TMIN", <<Slot(35)>>) >>

FileH2 ==
    << Line(FirstYear, 1, "TMAX", <<Slot(110), Slot(200)>>),
       Line(FirstYear, 12, "TMIN", <<Slot(-30)>>),
       Line(FirstYear + 1, 10, "TMAX", <<Slot(90), Slot(95), Slot(100)>>) >>

\* a version with a day value that is no number, in its second year
FileH3 ==
    << Line(FirstYear, 5, "TMAX", <<Slot(180), Slot(190)>>),
       Line(FirstYear + 1, 2, "TMIN", <<Slot(-20), Garbled>>) >>

\* a version with a year field that is no number, on a line of an element
\* that is not requested, and a month field that is no number after it
FileH4 ==
    << Line(FirstYear, 6, "TMAX", <<Slot(210)>>),
       BadYear(Line(FirstYear, 6, "PRCP", <<Slot(12)>>)),
       BadMonth(Line(FirstYear + 1, 6, "TMIN", <<Slot(95)>>)) >>

Content(sha256) ==
    CASE sha256 = "h1" -> FileH1
      [] sha256 = "h2" -> FileH2
      [] sha256 = "h3" -> FileH3
      [] sha256 = "h4" -> FileH4

\* --- the files whose parse is followed line by line ---

\* a full line of 31 day groups: values on the days 28..31, -9999 before
MonthEnd == [d \in 1..DaysPerLine |-> IF d >= 28 THEN Slot(10 * d) ELSE Slot(-9999)]

\* the lines a file is made of, for a run over [a, b]: requested and other
\* elements, every place of the scan window [a - 1, b] and outside it,
\* sentinel, flagged and surplus days, months outside 1..12, cut lines and
\* fields that are no numbers
LinePool(a, b) ==
    { Line(a, 1, "TMAX", <<Slot(100), Slot(200), Slot(-9999), Flagged(500)>>),
      Line(a, 2, "TMIN", MonthEnd),
      Line(b, 12, "TMAX", <<Slot(-35)>>),
      Line(a - 1, 12, "TMIN", <<Slot(-120), Slot(80)>>),
      Line(a - 1, 6, "TMAX", <<Slot(250)>>),
      Line(a - 2, 12, "TMAX", <<Slot(10)>>),
      Line(b + 1, 1, "TMIN", <<Slot(20)>>),
      Line(a, 13, "TMAX", <<Slot(300)>>),
      Line(b, 10, "TMIN", <<Slot(-40), Slot(40)>>),
      Cut(Line(a, 9, "TMIN", <<Slot(50), Slot(60)>>), HeaderLen + SlotLen + 5),
      Cut(BadYear(Line(a, 3, "TMAX", <<>>)), HeaderLen - 6),
      Line(a, 7, "PRCP", <<Slot(5), Garbled>>),
      BadYear(Line(a, 7, "PRCP", <<Slot(5)>>)),
      BadMonth(Line(b, 8, "SNOW", <<Slot(0)>>)),
      BadMonth(Line(a, 5, "TMAX", <<Slot(150)>>)),
      Line(b, 4, "TMIN", <<Slot(70), Garbled, Slot(90)>>),
      Line(b + 1, 3, "TMAX", <<Garbled>>),
      Line(b, 0, "TMIN", <<Slot(15), Flagged(25)>>),
      Line(a, 13, "TMIN", <<Slot(-9999), Garbled>>) }

\* the files: up to MaxLines lines of the pool, in any order
Files(a, b) == UNION { [1..n -> LinePool(a, b)] : n \in 0..MaxLines }

\* --- files of whole months ---

\* months of a file of whole months
MaxMonths == 3

\* a line with a value on each of its 31 day groups
FullMonth(raw) == [d \in 1..DaysPerLine |-> Slot(raw)]

\* the whole-month lines of a run over [a, b]: the three months of the
\* first winter, and a month of the other element
MonthPool(a, b) ==
    { Line(a - 1, 12, "TMIN", FullMonth(-50)),
      Line(a, 1, "TMIN", FullMonth(-20)),
      Line(a, 2, "TMIN", FullMonth(10)),
      Line(b, 7, "TMAX", FullMonth(250)) }

\* up to MaxMonths of these lines in any order, the same line more than
\* once among them
MonthFiles(a, b) == UNION { [1..n -> MonthPool(a, b)] : n \in 0..MaxMonths }

\* the first years of the runs followed: a century year that is no leap
\* year, a leap year, and a year before a leap year
StartYears == {1900, FirstYear, FirstYear + 23}

Spans ==
    { w \in [start_year : StartYears, end_year : {y + d : y \in StartYears, d \in {0, 1}}] :
        w.end_year - w.start_year \in {0, 1} }

\* the metric lists a request may name (main.py lines 473-475: non-empty,
\* every name in ALL_METRICS, duplicates allowed)
MetricLists ==
    { <<"tmax_winter", "tmin_year">>, <<"tmin_summer", "tmin_summer">> }

\* pg's hashtext() of a station id is a 32-bit value: two station ids
\* either have their own lock keys or share one
LockKeys == {1, 2}
KeysDistinct == [s \in Stations |-> IF s = "A" THEN 1 ELSE 2]
KeysShared == [s \in Stations |-> 1]

NoReq == [station_id |-> "", sha256 |-> "", start_year |-> 0, end_year |-> 0]

Requests ==
    { r \in [station_id : Stations, sha256 : Hashes,
              start_year : Years, end_year : Years] :
        r.sha256 \in HashesOf(r.station_id) /\ r.start_year <= r.end_year }

VARIABLES
    table,          \* committed rows of station_metric_cache
    lock,           \* advisory lock key -> session (process) holding it
    hashtext,       \* station id -> advisory lock key
    pc,             \* process -> where its request stands
    req,            \* process -> arguments of its request
    series,         \* process -> result of compute_means, until upserted
    pending,        \* process -> rows written in its open transaction
    resp,           \* process -> series_out of load_cached_series
    ncalls,         \* requests started
    ncompute,       \* executions of compute_means (instrumentation counter)
    commits,        \* the requests whose rows were committed, in commit
                    \* order (instrumentation log)
    \* one run of compute_means, line by line (ghcn_dly.py lines 114-200)
    dly_path,       \* the lines of the file at dly_path
    span,           \* the arguments start_year, end_year
    lineno,         \* index of the line the loop of line 135 reads next
    accum,          \* yearly_sum, yearly_count, seasonal_sum, seasonal_count
    means,          \* the dict returned, None until the return
    scan_pc         \* "off", "reading", "returned" or "raised"

cacheVars ==
    <<table, lock, hashtext, pc, req, series, pending, resp, ncalls, ncompute, commits>>

scanVars == <<dly_path, span, lineno, accum, means, scan_pc>>

vars == <<table, lock, hashtext, pc, req, series, pending, resp, ncalls, ncompute,
          commits, dly_path, span, lineno, accum, means, scan_pc>>

\* --- the table (db.py lines 36-46) ---

Row(station_id, metric, p, sha256) ==
    [station_id |-> station_id, metric |-> metric, year |-> p.year,
     sha256 |-> sha256, value_c |-> p.value_c,
     present_days |-> p.present_days, expected_days |-> p.expected_days]

\* PRIMARY KEY (station_id, metric, year)
Key(r) == <<r.station_id, r.metric, r.year>>

\* a variant: ON CONFLICT ... DO NOTHING keeps the stored row
UpsertRowDoNothing(rows, r) ==
    IF \E x \in rows : Key(x) = Key(r) THEN rows ELSE rows \cup {r}

\* INSERT ... ON CONFLICT (station_id, metric, year) DO UPDATE SET ...
\* (cache.py lines 69-90)
UpsertRow(rows, r) == {x \in rows : Key(x) # Key(r)} \cup {r}

\* a variant: the station's rows are deleted before the new ones are
\* inserted
UpsertAllReplacing(rows, stmts, i) ==
    {x \in rows : \A j \in DOMAIN stmts : x.station_id # stmts[j].station_id}
        \cup {stmts[j] : j \in DOMAIN stmts}

RECURSIVE UpsertAll(_, _, _)
UpsertAll(rows, stmts, i) ==
    IF i > Len(stmts) THEN rows
    ELSE UpsertAll(UpsertRow(rows, stmts[i]), stmts, i + 1)

\* a variant: the count without the sha256 filter
CountRowsAnyHash(rows, r) ==
    Cardinality({x \in rows : /\ x.station_id = r.station_id
                              /\ r.start_year <= x.year
                              /\ x.year <= r.end_year})

\* a variant: the count without the upper bound of the year range
CountRowsOpenEnded(rows, r) ==
    Cardinality({x \in rows : /\ x.station_id = r.station_id
                              /\ x.sha256 = r.sha256
                              /\ r.start_year <= x.year})

\* SELECT count(*) ... WHERE station_id=%s AND sha256=%s AND year BETWEEN
\* (cache.py lines 34-42 and 51-59)
CountRows(rows, r) ==
    Cardinality({x \in rows : /\ x.station_id = r.station_id
                              /\ x.sha256 = r.sha256
                              /\ r.start_year <= x.year
                              /\ x.year <= r.end_year})

\* cache.py lines 29-30
expected_rows(r) == (r.end_year - r.start_year + 1) * Len(ALL_METRICS)

Warm(rows, r) == CountRows(rows, r) >= expected_rows(r)

\* the rows the upsert loop writes, in statement order (cache.py 65-90)
RECURSIVE Flatten(_, _)
Flatten(seqs, i) == IF i > Len(seqs) THEN <<>> ELSE seqs[i] \o Flatten(seqs, i + 1)

UpsertStatements(r, out) ==
    Flatten([m \in DOMAIN ALL_METRICS |->
               [j \in DOMAIN out[ALL_METRICS[m]] |->
                  Row(r.station_id, ALL_METRICS[m], out[ALL_METRICS[m]][j], r.sha256)]],
            1)

\* the statements of the loop that a store error may hit: the first one,
\* or the last one, after every other row has been written
FailPoints(r) == {0, expected_rows(r) - 1}

\* --- load_cached_series (cache.py lines 97-134) ---

Placeholder(y) ==
    [year |-> y, value_c |-> None, present_days |-> 0, expected_days |-> 0]

PointOf(x) ==
    [year |-> x.year, value_c |-> x.value_c,
     present_days |-> x.present_days, expected_days |-> x.expected_days]

\* a variant: the SELECT without the sha256 filter
SelectRowsAnyHash(rows, station_id, sha256, start_year, end_year, metrics) ==
    {x \in rows : /\ x.station_id = station_id
                  /\ start_year <= x.year /\ x.year <= end_year
                  /\ \E i \in DOMAIN metrics : x.metric = metrics[i]}

\* the SELECT of lines 110-119
SelectRows(rows, station_id, sha256, start_year, end_year, metrics) ==
    {x \in rows : /\ x.station_id = station_id
                  /\ x.sha256 = sha256
                  /\ start_year <= x.year /\ x.year <= end_year
                  /\ \E i \in DOMAIN metrics : x.metric = metrics[i]}

\* a variant: only the years that have a row get a point
load_sparse_series(rows, station_id, sha256, start_year, end_year, metrics) ==
    LET fetched == SelectRows(rows, station_id, sha256, start_year, end_year, metrics)
        IndexYears(m) == {y \in start_year..end_year :
                            \E x \in fetched : x.metric = m /\ x.year = y}
        Nth(m, j) == CHOOSE y \in IndexYears(m) :
                        Cardinality({z \in IndexYears(m) : z < y}) = j - 1
    IN  [i \in DOMAIN metrics |->
           [key |-> metrics[i],
            sha256 |-> sha256,
            points |->
              [j \in 1..Cardinality(IndexYears(metrics[i])) |->
                 PointOf(CHOOSE x \in fetched :
                           x.metric = metrics[i] /\ x.year = Nth(metrics[i], j))]]]

load_cached_series(rows, station_id, sha256, start_year, end_year, metrics) ==
    LET fetched == SelectRows(rows, station_id, sha256, start_year, end_year, metrics)
        by_metric(m, y) == {x \in fetched : x.metric = m /\ x.year = y}
    IN  [i \in DOMAIN metrics |->
           [key |-> metrics[i],
            sha256 |-> sha256,
            points |->
              [j \in 1..(end_year - start_year + 1) |->
                 LET y == start_year + j - 1
                 IN  IF by_metric(metrics[i], y) # {}
                     THEN PointOf(CHOOSE x \in by_metric(metrics[i], y) : TRUE)
                     ELSE Placeholder(y)]]]

\* cache.py line 63: the call of compute_means for a request.  The result
\* depends on the request alone, so it is tabulated once.
ComputeCall(r) ==
    compute_means(Content(r.sha256), r.start_year, r.end_year, Elements)

Computed ==
    LET RECURSIVE Tabulate(_)
        Tabulate(S) ==
            IF S = {}
            THEN <<>>
            ELSE LET r == CHOOSE x \in S : TRUE
                 IN  (r :> ComputeCall(r)) @@ Tabulate(S \ {r})
    IN  Tabulate(Requests)

\* ------------------------------------------------------------------------
\* The state machine
\* ------------------------------------------------------------------------

\* the state after ensure_schema (db.py lines 13-52), no request running
Start(keys) ==
    /\ table = {}
    /\ lock = [k \in LockKeys |-> NoProc]
    /\ hashtext = keys
    /\ pc = [p \in Procs |-> "idle"]
    /\ req = [p \in Procs |-> NoReq]
    /\ series = [p \in Procs |-> <<>>]
    /\ pending = [p \in Procs |-> <<>>]
    /\ resp = [p \in Procs |-> <<>>]
    /\ ncalls = 0
    /\ ncompute = 0
    /\ commits = <<>>

\* no run of compute_means is followed line by line
ScanOff ==
    /\ dly_path = <<>>
    /\ span = [start_year |-> 0, end_year |-> 0]
    /\ lineno = 0
    /\ accum = EmptyAcc
    /\ means = None
    /\ scan_pc = "off"

\* the two station ids have lock keys of their own
Init == Start(KeysDistinct) /\ ScanOff

\* the two station ids share one lock key
InitShared == Start(KeysShared) /\ ScanOff

\* main.py lines 460-477: a handler that is free (it has answered its last
\* request, or the exception has left it) takes a request;
\* ensure_station_dly hands out the file's hash; ensure_cached_metrics is
\* entered
Call(p, r) ==
    /\ pc[p] \in {"idle", "loaded", "raised"}
    /\ ncalls < MaxCalls
    /\ ncalls' = ncalls + 1
    /\ req' = [req EXCEPT ![p] = r]
    /\ resp' = [resp EXCEPT ![p] = <<>>]
    /\ pc' = [pc EXCEPT ![p] = "fast"]
    /\ UNCHANGED <<table, lock, hashtext, series, pending, ncompute>>
    /\ UNCHANGED scanVars
    /\ UNCHANGED commits

\* cache.py lines 32-34 and 46-48: connect() or the first statement of a
\* connection fails; no lock is held
ConnectFails(p) ==
    /\ pc[p] \in {"fast", "acquire"}
    /\ pc' = [pc EXCEPT ![p] = "raised"]
    /\ UNCHANGED <<table, lock, hashtext, req, series, pending, resp, ncalls, ncompute>>
    /\ UNCHANGED scanVars
    /\ UNCHANGED commits

\* a variant: `have > expected_rows`
FastPathStrict(p) ==
    /\ pc[p] = "fast"
    /\ pc' = [pc EXCEPT ![p] = IF CountRows(table, req[p]) > expected_rows(req[p])
                               THEN "returned" ELSE "acquire"]
    /\ UNCHANGED <<table, lock, hashtext, req, series, pending, resp, ncalls, ncompute>>
    /\ UNCHANGED scanVars
    /\ UNCHANGED commits

\* a variant: the count is made on the connection that takes the lock, so
\* it waits while another session holds the station's key
FastPathLocked(p) ==
    /\ pc[p] = "fast"
    /\ lock[hashtext[req[p].station_id]] = NoProc
    /\ pc' = [pc EXCEPT ![p] = IF Warm(table, req[p]) THEN "returned" ELSE "acquire"]
    /\ UNCHANGED <<table, lock, hashtext, req, series, pending, resp, ncalls, ncompute>>
    /\ UNCHANGED scanVars
    /\ UNCHANGED commits

\* cache.py lines 32-44: the fast-path count, on its own connection
FastPath(p) ==
    /\ pc[p] = "fast"
    /\ pc' = [pc EXCEPT ![p] = IF Warm(table, req[p]) THEN "returned" ELSE "acquire"]
    /\ UNCHANGED <<table, lock, hashtext, req, series, pending, resp, ncalls, ncompute>>
    /\ UNCHANGED scanVars
    /\ UNCHANGED commits

\* a variant: pg_try_advisory_lock, its result ignored
AcquireNoWait(p) ==
    /\ pc[p] = "acquire"
    /\ lock' = [lock EXCEPT ![hashtext[req[p].station_id]] =
                   IF @ = NoProc THEN p ELSE @]
    /\ pc' = [pc EXCEPT ![p] = "recheck"]
    /\ UNCHANGED <<table, hashtext, req, series, pending, resp, ncalls, ncompute>>
    /\ UNCHANGED scanVars
    /\ UNCHANGED commits

\* cache.py lines 46-48: pg_advisory_lock blocks until the key is free
Acquire(p) ==
    /\ pc[p] = "acquire"
    /\ lock[hashtext[req[p].station_id]] = NoProc
    /\ lock' = [lock EXCEPT ![hashtext[req[p].station_id]] = p]
    /\ pc' = [pc EXCEPT ![p] = "recheck"]
    /\ UNCHANGED <<table, hashtext, req, series, pending, resp, ncalls, ncompute>>
    /\ UNCHANGED scanVars
    /\ UNCHANGED commits

\* a variant: no second count under the lock
RecheckSkipped(p) ==
    /\ pc[p] = "recheck"
    /\ pc' = [pc EXCEPT ![p] = "compute"]
    /\ UNCHANGED <<table, lock, hashtext, req, series, pending, resp, ncalls, ncompute>>
    /\ UNCHANGED scanVars
    /\ UNCHANGED commits

\* cache.py lines 50-61: the count again, under the lock; a warm cache
\* returns through the finally clause
Recheck(p) ==
    /\ pc[p] = "recheck"
    /\ pc' = [pc EXCEPT ![p] = IF Warm(table, req[p]) THEN "finally_return" ELSE "compute"]
    /\ UNCHANGED <<table, lock, hashtext, req, series, pending, resp, ncalls, ncompute>>
    /\ UNCHANGED scanVars
    /\ UNCHANGED commits

\* cache.py line 63: compute_means over the file; a ValueError of the parse
\* leaves through the finally clause
Compute(p) ==
    /\ pc[p] = "compute"
    /\ ncompute' = ncompute + 1
    /\ LET out == Computed[req[p]]
       IN  IF out.raised
           THEN /\ pc' = [pc EXCEPT ![p] = "finally_raise"]
                /\ UNCHANGED series
           ELSE /\ pc' = [pc EXCEPT ![p] = "upsert"]
                /\ series' = [series EXCEPT ![p] = out.series]
    /\ UNCHANGED <<table, lock, hashtext, req, pending, resp, ncalls>>
    /\ UNCHANGED scanVars
    /\ UNCHANGED commits

\* ghcn_dly.py line 134: the file cannot be opened or read (OSError)
ComputeFails(p) ==
    /\ pc[p] = "compute"
    /\ ncompute' = ncompute + 1
    /\ pc' = [pc EXCEPT ![p] = "finally_raise"]
    /\ UNCHANGED <<table, lock, hashtext, req, series, pending, resp, ncalls>>
    /\ UNCHANGED scanVars
    /\ UNCHANGED commits

\* cache.py lines 65-90: the upserts, inside the open transaction
Upsert(p) ==
    /\ pc[p] = "upsert"
    /\ pending' = [pending EXCEPT ![p] = UpsertStatements(req[p], series[p])]
    /\ series' = [series EXCEPT ![p] = <<>>]
    /\ pc' = [pc EXCEPT ![p] = "commit"]
    /\ UNCHANGED <<table, lock, hashtext, req, resp, ncalls, ncompute>>
    /\ UNCHANGED scanVars
    /\ UNCHANGED commits

\* a variant: an autocommit connection, every statement is committed as
\* it is executed, so the rows written before the failure stay
UpsertFailsAutocommit(p) ==
    /\ pc[p] = "upsert"
    /\ \E k \in FailPoints(req[p]) :
           table' = UpsertAll(table,
                              SubSeq(UpsertStatements(req[p], series[p]), 1, k), 1)
    /\ series' = [series EXCEPT ![p] = <<>>]
    /\ pc' = [pc EXCEPT ![p] = "finally_aborted"]
    /\ UNCHANGED <<pending, lock, hashtext, req, resp, ncalls, ncompute>>
    /\ UNCHANGED scanVars
    /\ UNCHANGED commits

\* cache.py lines 69-90: after k statements the next one fails in the
\* store; the transaction, with the k rows written, is aborted
UpsertFails(p) ==
    /\ pc[p] = "upsert"
    /\ \E k \in FailPoints(req[p]) :
           pending' = [pending EXCEPT ![p] =
                         SubSeq(UpsertStatements(req[p], series[p]), 1, k)]
    /\ series' = [series EXCEPT ![p] = <<>>]
    /\ pc' = [pc EXCEPT ![p] = "finally_aborted"]
    /\ UNCHANGED <<table, lock, hashtext, req, resp, ncalls, ncompute>>
    /\ UNCHANGED scanVars
    /\ UNCHANGED commits

\* a variant: no conn.commit() before the finally clause, so the rows are
\* not visible when the lock is released
CommitSkipped(p) ==
    /\ pc[p] = "commit"
    /\ pc' = [pc EXCEPT ![p] = "finally_done"]
    /\ UNCHANGED <<table, pending, lock, hashtext, req, series, resp, ncalls, ncompute>>
    /\ UNCHANGED scanVars
    /\ UNCHANGED commits

\* cache.py line 91: conn.commit() makes the transaction's rows visible
Commit(p) ==
    /\ pc[p] = "commit"
    /\ table' = UpsertAll(table, pending[p], 1)
    /\ pending' = [pending EXCEPT ![p] = <<>>]
    /\ commits' = Append(commits, req[p])
    /\ pc' = [pc EXCEPT ![p] = "finally_done"]
    /\ UNCHANGED <<lock, hashtext, req, series, resp, ncalls, ncompute>>
    /\ UNCHANGED scanVars

\* a variant: autocommit, so the rows are in the table when commit fails
CommitFailsDirty(p) ==
    /\ pc[p] = "commit"
    /\ table' = UpsertAll(table, pending[p], 1)
    /\ pending' = [pending EXCEPT ![p] = <<>>]
    /\ pc' = [pc EXCEPT ![p] = "finally_aborted"]
    /\ UNCHANGED <<lock, hashtext, req, series, resp, ncalls, ncompute>>
    /\ UNCHANGED scanVars
    /\ UNCHANGED commits

\* cache.py line 91: conn.commit() fails; the transaction is rolled back
CommitFails(p) ==
    /\ pc[p] = "commit"
    /\ pending' = [pending EXCEPT ![p] = <<>>]
    /\ pc' = [pc EXCEPT ![p] = "finally_aborted"]
    /\ UNCHANGED <<table, lock, hashtext, req, series, resp, ncalls, ncompute>>
    /\ UNCHANGED scanVars
    /\ UNCHANGED commits

\* a variant: no finally clause and a session that outlives the call, so
\* the lock is released only after a commit
UnlockAfterCommitOnly(p) ==
    /\ pc[p] \in {"finally_return", "finally_done", "finally_raise"}
    /\ lock' = [lock EXCEPT ![hashtext[req[p].station_id]] =
                   IF pc[p] = "finally_done" THEN NoProc ELSE @]
    /\ pc' = [pc EXCEPT ![p] = IF pc[p] = "finally_raise" THEN "raised" ELSE "returned"]
    /\ UNCHANGED <<table, hashtext, req, series, pending, resp, ncalls, ncompute>>
    /\ UNCHANGED scanVars
    /\ UNCHANGED commits

\* cache.py lines 92-94, then the exit of `with connect()`:
\* pg_advisory_unlock, and the return or the exception goes on
Unlock(p) ==
    /\ pc[p] \in {"finally_return", "finally_done", "finally_raise"}
    /\ lock' = [lock EXCEPT ![hashtext[req[p].station_id]] = NoProc]
    /\ pc' = [pc EXCEPT ![p] = IF pc[p] = "finally_raise" THEN "raised" ELSE "returned"]
    /\ UNCHANGED <<table, hashtext, req, series, pending, resp, ncalls, ncompute>>
    /\ UNCHANGED scanVars
    /\ UNCHANGED commits

\* a variant: the session outlives the call (a pooled connection), so a
\* failed unlock statement leaves the lock held
UnlockAbortedPooled(p) ==
    /\ pc[p] = "finally_aborted"
    /\ pending' = [pending EXCEPT ![p] = <<>>]
    /\ pc' = [pc EXCEPT ![p] = "raised"]
    /\ UNCHANGED <<table, lock, hashtext, req, series, resp, ncalls, ncompute>>
    /\ UNCHANGED scanVars
    /\ UNCHANGED commits

\* cache.py lines 92-94 after a store error: the unlock statement may fail
\* too (aborted transaction, lost connection); the exit of `with connect()`
\* rolls back and closes the session, and that releases its advisory locks
UnlockAborted(p) ==
    /\ pc[p] = "finally_aborted"
    /\ lock' = [lock EXCEPT ![hashtext[req[p].station_id]] = NoProc]
    /\ pending' = [pending EXCEPT ![p] = <<>>]
    /\ pc' = [pc EXCEPT ![p] = "raised"]
    /\ UNCHANGED <<table, hashtext, req, series, resp, ncalls, ncompute>>
    /\ UNCHANGED scanVars
    /\ UNCHANGED commits

\* a variant: the read stores the gap it found for its first point
LoadCachingGap(p, metrics) ==
    /\ pc[p] = "returned"
    /\ resp' = [resp EXCEPT ![p] =
                  load_cached_series(table, req[p].station_id, req[p].sha256,
                                     req[p].start_year, req[p].end_year, metrics)]
    /\ table' = UpsertRow(table, Row(req[p].station_id, metrics[1],
                                     Placeholder(req[p].start_year), req[p].sha256))
    /\ pc' = [pc EXCEPT ![p] = "loaded"]
    /\ UNCHANGED <<lock, hashtext, req, series, pending, ncalls, ncompute>>
    /\ UNCHANGED scanVars
    /\ UNCHANGED commits

\* main.py lines 485-491: load_cached_series after ensure_cached_metrics
\* has returned
Load(p, metrics) ==
    /\ pc[p] = "returned"
    /\ resp' = [resp EXCEPT ![p] =
                  load_cached_series(table, req[p].station_id, req[p].sha256,
                                     req[p].start_year, req[p].end_year, metrics)]
    /\ pc' = [pc EXCEPT ![p] = "loaded"]
    /\ UNCHANGED <<table, lock, hashtext, req, series, pending, ncalls, ncompute>>
    /\ UNCHANGED scanVars
    /\ UNCHANGED commits

Next ==
    \E p \in Procs :
        \/ \E r \in Requests : Call(p, r)
        \/ ConnectFails(p)
        \/ FastPath(p)
        \/ Acquire(p)
        \/ Recheck(p)
        \/ Compute(p)
        \/ ComputeFails(p)
        \/ Upsert(p)
        \/ UpsertFails(p)
        \/ Commit(p)
        \/ CommitFails(p)
        \/ Unlock(p)
        \/ UnlockAborted(p)
        \/ \E m \in MetricLists : Load(p, m)

Spec == Init /\ [][Next]_vars

SpecShared == InitShared /\ [][Next]_vars

\* the statements of ensure_cached_metrics that go on when nothing fails;
\* none of them waits for another call
Proceed(p) ==
    \/ FastPath(p)
    \/ Recheck(p)
    \/ Compute(p)
    \/ Upsert(p)
    \/ Commit(p)
    \/ Unlock(p)
    \/ UnlockAborted(p)

\* a call in progress is not stopped for ever: the handler runs its
\* statements, compute_means terminates (it reads a finite file once), and
\* the store's lock manager grants a key that is free again and again to a
\* session waiting for it (pg_advisory_lock queues the waiters); no failure
\* is required to happen, and no request is required to arrive
Progress ==
    \A p \in Procs : WF_vars(Proceed(p)) /\ SF_vars(Acquire(p))

\* the service with its station ids on lock keys of their own or on one
\* shared key, its calls making progress
SpecLive == (Init \/ InitShared) /\ [][Next]_vars /\ Progress

\* the store as an earlier run of the service has left it: the rows of one
\* successful population run are committed and its lock is released; no
\* request of this run of the service has started
EarlierRuns ==
    { [station_id |-> "A", sha256 |-> "h1",
       start_year |-> FirstYear, end_year |-> FirstYear + 1],
      [station_id |-> "A", sha256 |-> "h2",
       start_year |-> FirstYear, end_year |-> FirstYear] }

InitWarm ==
    /\ \E r \in EarlierRuns :
           /\ table = UpsertAll({}, UpsertStatements(r, Computed[r].series), 1)
           /\ commits = <<r>>
    /\ lock = [k \in LockKeys |-> NoProc]
    /\ hashtext = KeysDistinct
    /\ pc = [p \in Procs |-> "idle"]
    /\ req = [p \in Procs |-> NoReq]
    /\ series = [p \in Procs |-> <<>>]
    /\ pending = [p \in Procs |-> <<>>]
    /\ resp = [p \in Procs |-> <<>>]
    /\ ncalls = 0
    /\ ncompute = 0
    /\ ScanOff

SpecWarm == InitWarm /\ [][Next]_vars

\* ------------------------------------------------------------------------
\* One run of compute_means, followed line by line
\* ------------------------------------------------------------------------

\* ghcn_dly.py lines 114-134: the call, with its arguments and the file
\* opened, the accumulators empty
InitMeans ==
    /\ Start(KeysDistinct)
    /\ span \in Spans
    /\ dly_path \in Files(span.start_year, span.end_year)
    /\ lineno = 1
    /\ accum = EmptyAcc
    /\ means = None
    /\ scan_pc = "reading"

\* ghcn_dly.py lines 135-175: one turn of `for line in f`; a ValueError of
\* int() leaves the function
ReadLine ==
    /\ scan_pc = "reading"
    /\ lineno <= Len(dly_path)
    /\ LET a == ScanLine(accum, dly_path[lineno], span.start_year, span.end_year,
                         Elements)
       IN  /\ accum' = a
           /\ IF a.raised
              THEN scan_pc' = "raised" /\ UNCHANGED lineno
              ELSE lineno' = lineno + 1 /\ UNCHANGED scan_pc
    /\ UNCHANGED <<dly_path, span, means>>
    /\ UNCHANGED cacheVars

\* ghcn_dly.py lines 177-200: the end of the file; the series are emitted
Return ==
    /\ scan_pc = "reading"
    /\ lineno > Len(dly_path)
    /\ means' = EmitSeries(accum, span.start_year, span.end_year, Elements)
    /\ scan_pc' = "returned"
    /\ UNCHANGED <<dly_path, span, lineno, accum>>
    /\ UNCHANGED cacheVars

NextMeans == ReadLine \/ Return

SpecMeans == InitMeans /\ [][NextMeans]_vars

\* the call on a file of whole months
InitMonths ==
    /\ Start(KeysDistinct)
    /\ span \in Spans
    /\ dly_path \in MonthFiles(span.start_year, span.end_year)
    /\ lineno = 1
    /\ accum = EmptyAcc
    /\ means = None
    /\ scan_pc = "reading"

SpecMonths == InitMonths /\ [][NextMeans]_vars

\* ------------------------------------------------------------------------
\* Properties
\* ------------------------------------------------------------------------

\* between lock acquisition (line 48) and release (line 94 / session end)
Critical ==
    {"recheck", "compute", "upsert", "commit",
     "finally_return", "finally_done", "finally_raise", "finally_aborted"}

Failing == {"finally_raise", "finally_aborted"}

LockKeyOf(p) == hashtext[req[p].station_id]

InRange(x, r) ==
    /\ x.station_id = r.station_id
    /\ r.start_year <= x.year
    /\ x.year <= r.end_year

\* the steps of a process, by its position
Steps(p, from, to) == pc[p] \in from /\ pc'[p] \in to

Committing(p) == Steps(p, {"commit"}, {"finally_done"})

\* C1: at most one call for a station is between lock acquisition and lock
\* release at any time (and it holds the station's lock key), so at most
\* one computation per (station, hash) runs at a time
C1_OneWriterPerStation ==
    \A p \in Procs :
        pc[p] \in Critical =>
            /\ lock[LockKeyOf(p)] = p
            /\ \A q \in Procs \ {p} :
                   pc[q] \in Critical => req[q].station_id # req[p].station_id

\* two calls for the same station and hash: one computes, the other waits
C1_Witness ==
    \E p, q \in Procs :
        /\ p # q
        /\ req[p] = req[q]
        /\ pc[p] = "compute"
        /\ pc[q] = "acquire"

\* the calls made so far are all still with their handlers, are for one
\* identical request, and none has failed
SameColdCalls ==
    LET A == {p \in Procs : pc[p] # "idle"}
    IN  /\ A # {}
        /\ ncalls = Cardinality(A)
        /\ \A p, q \in A : req[p] = req[q]
        /\ \A p \in A : pc[p] \notin Failing \cup {"raised"}

\* C2: N concurrent identical calls on a cold cache, none failing, execute
\* compute_means exactly once, and each caller returns with exactly
\* years*10 rows stored for the station and hash in the range
C2_OneComputeForIdenticalCalls ==
    SameColdCalls =>
        /\ ncompute <= 1
        /\ \A p \in Procs :
               pc[p] \in {"returned", "loaded"} =>
                   /\ ncompute = 1
                   /\ CountRows(table, req[p]) = expected_rows(req[p])

\* both handlers have returned from identical calls made concurrently
C2_Witness ==
    /\ SameColdCalls
    /\ ncalls = Cardinality(Procs)
    /\ \A p \in Procs : pc[p] = "returned"
    /\ ncompute = 1

\* C3: a commit leaves the cache warm for its request; it stays warm until
\* another writer commits for the station; and a call that finds it warm
\* returns from the fast-path count without lock, computation or write
C3_SecondCallIsNoOp ==
    [][ /\ \A p \in Procs :
              /\ Committing(p) => Warm(table', req[p])
              /\ (Steps(p, {"fast"}, {"returned", "acquire"}) /\ Warm(table, req[p])) =>
                     /\ pc'[p] = "returned"
                     /\ UNCHANGED <<table, lock, ncompute, series, pending>>
        /\ table' # table =>
              \A r \in Requests :
                  (Warm(table, r) /\ ~Warm(table', r)) =>
                      \E q \in Procs :
                          /\ Committing(q)
                          /\ req[q].station_id = r.station_id
                          /\ req[q].sha256 # r.sha256
      ]_vars

\* a second call for the request of a committed first one has returned
\* while compute_means ran once
C3_Witness ==
    \E p, q \in Procs :
        /\ p # q
        /\ ncalls = 2
        /\ ncompute = 1
        /\ req[p] = req[q]
        /\ pc[p] = "loaded"
        /\ pc[q] = "returned"
        /\ \A k \in LockKeys : lock[k] = NoProc

StationRows(rows, station_id) == {x \in rows : x.station_id = station_id}

\* C4: a run that fails in compute, upsert or commit changes no stored
\* row: the failing step and the exit leave the table as it is, the rows
\* of the station are as they were when the lock was taken, the count
\* stays below years*10, and the lock is free for a retry
C4_FailureLeavesStoreUntouched ==
    [][ \A p \in Procs :
          /\ Steps(p, {"compute", "upsert", "commit"}, Failing) => table' = table
          /\ (pc[p] \in Critical /\ ~Committing(p)) =>
                 StationRows(table', req[p].station_id)
                     = StationRows(table, req[p].station_id)
          /\ pc[p] \in Failing =>
                 /\ ~Warm(table, req[p])
                 /\ pc'[p] # pc[p] =>
                        /\ pc'[p] = "raised"
                        /\ table' = table
                        /\ ~Warm(table', req[p])
                        /\ pending'[p] = <<>>
                        /\ lock'[LockKeyOf(p)] = NoProc
      ]_vars

\* a call has failed after computing, and the retry of the same request
\* has computed and committed
C4_Witness ==
    \E p, q \in Procs :
        /\ p # q
        /\ req[p] = req[q]
        /\ pc[p] = "raised"
        /\ pc[q] = "finally_done"
        /\ ncompute = 2
        /\ Warm(table, req[q])

\* C5: a call that is not between acquisition and the end of the finally
\* clause holds no lock: every exit path has released it
C5_LockReleasedOnEveryExit ==
    \A p \in Procs :
        pc[p] \notin Critical => \A k \in LockKeys : lock[k] # p

\* the only call so far took the lock, computed, failed and has raised
C5_Witness ==
    \E p \in Procs :
        /\ ncalls = 1
        /\ ncompute = 1
        /\ pc[p] = "raised"
        /\ \A k \in LockKeys : lock[k] = NoProc

\* rows of the request's station and range stored under another hash
StaleRows(rows, r) == {x \in rows : InRange(x, r) /\ x.sha256 # r.sha256}

\* what load_cached_series returns when every point of the request is
\* cached as computed
FullSeries(r) ==
    [i \in DOMAIN ALL_METRICS |->
       [key |-> ALL_METRICS[i], sha256 |-> r.sha256,
        points |-> Computed[r].series[ALL_METRICS[i]]]]

\* C6: a populate under a new hash is not warm while rows of its range
\* are stored under another hash; its commit overwrites every row of the
\* station in the range with the new hash and values, a read keyed to the
\* new hash over the range returns the new values, and rows outside the
\* range stay stored under their hash, and the SELECT of a read keyed to
\* the new hash fetches none of them
C6_HashInvalidation ==
    [][ \A p \in Procs :
          LET r == req[p]
          IN  /\ (Steps(p, {"fast"}, {"returned", "acquire"}) /\ StaleRows(table, r) # {})
                     => pc'[p] = "acquire"
              /\ (Steps(p, {"recheck"}, {"finally_return", "compute"})
                     /\ StaleRows(table, r) # {})
                     => pc'[p] = "compute"
              /\ Committing(p) =>
                     /\ StaleRows(table', r) = {}
                     /\ \A x \in table : ~InRange(x, r) => x \in table'
                     /\ load_cached_series(table', r.station_id, r.sha256,
                                           r.start_year, r.end_year, ALL_METRICS)
                            = FullSeries(r)
                     /\ \A x \in SelectRows(table', r.station_id, r.sha256,
                                             FirstYear, FirstYear + 1, ALL_METRICS) :
                            x.sha256 = r.sha256
      ]_vars

\* a commit under a new hash has overwritten part of the station's years;
\* the other year is still stored under the old hash
C6_Witness ==
    \E p \in Procs :
        /\ pc[p] = "finally_done"
        /\ \E x, y \in table :
               /\ InRange(x, req[p]) /\ x.sha256 = req[p].sha256
               /\ x.station_id = y.station_id
               /\ ~InRange(y, req[p])
               /\ y.sha256 # req[p].sha256

Loading(p) == Steps(p, {"returned"}, {"loaded"})

\* the rows stored for the key of point j of entry i of p's response
StoredFor(rows, p, key, y) ==
    {x \in rows : x.station_id = req[p].station_id /\ x.metric = key /\ x.year = y}

\* C7: load_cached_series returns a stored row's fields only when the
\* row's hash is the requested one; for a key stored under another hash
\* it returns the placeholder point
C7_StaleRowsInvisible ==
    [][ \A p \in Procs :
          Loading(p) =>
              \A i \in DOMAIN resp'[p] :
                  \A j \in DOMAIN resp'[p][i].points :
                      LET pt == resp'[p][i].points[j]
                          y == req[p].start_year + j - 1
                          stored == StoredFor(table, p, resp'[p][i].key, y)
                      IN  /\ \A x \in stored :
                                 IF x.sha256 = req[p].sha256
                                 THEN pt = PointOf(x)
                                 ELSE pt = Placeholder(y)
                          /\ pt # Placeholder(y) =>
                                 \E x \in stored : x.sha256 = req[p].sha256
      ]_vars

\* a response holds a placeholder for a key that is stored under another
\* hash
C7_Witness ==
    \E p \in Procs :
        /\ pc[p] = "loaded"
        /\ \E i \in DOMAIN resp[p] :
               \E j \in DOMAIN resp[p][i].points :
                   LET y == req[p].start_year + j - 1
                   IN  /\ resp[p][i].points[j] = Placeholder(y)
                       /\ \E x \in StoredFor(table, p, resp[p][i].key, y) :
                              x.sha256 # req[p].sha256

\* C8: the response has one entry per requested metric, each with exactly
\* end_year - start_year + 1 points for the years start_year..end_year in
\* ascending order; a point is the matching-hash row's fields or the
\* placeholder, and with no cached row every point is the placeholder
C8_DenseOutput ==
    [][ \A p \in Procs :
          Loading(p) =>
              LET r == req[p]
                  out == resp'[p]
              IN  /\ \E m \in MetricLists :
                         /\ DOMAIN out = DOMAIN m
                         /\ \A i \in DOMAIN m : out[i].key = m[i]
                  /\ \A i \in DOMAIN out :
                         /\ out[i].sha256 = r.sha256
                         /\ DOMAIN out[i].points = 1..(r.end_year - r.start_year + 1)
                         /\ \A j \in DOMAIN out[i].points :
                                LET pt == out[i].points[j]
                                    y == r.start_year + j - 1
                                    hit == {x \in StoredFor(table, p, out[i].key, y) :
                                              x.sha256 = r.sha256}
                                IN  /\ pt.year = y
                                    /\ IF hit # {}
                                       THEN \E x \in hit : pt = PointOf(x)
                                       ELSE pt = Placeholder(y)
                         /\ CountRows(table, r) = 0 =>
                                \A j \in DOMAIN out[i].points :
                                    out[i].points[j] = Placeholder(r.start_year + j - 1)
      ]_vars

\* a response over two years with a cached point and a placeholder
C8_Witness ==
    \E p \in Procs :
        /\ pc[p] = "loaded"
        /\ req[p].start_year < req[p].end_year
        /\ \E i \in DOMAIN resp[p] :
               /\ resp[p][i].points[1] = Placeholder(req[p].start_year)
               /\ resp[p][i].points[2].expected_days > 0

\* C9: the fast-path count and load_cached_series change no row, take no
\* lock and start no computation; the table changes only in the commit of
\* a populate run
C9_ReadsAreReadOnly ==
    [][ /\ \A p \in Procs :
              (Steps(p, {"fast"}, {"returned", "acquire"}) \/ Loading(p)) =>
                  UNCHANGED <<table, lock, ncompute, series, pending>>
        /\ table' # table => \E p \in Procs : Committing(p)
      ]_vars

\* a handler has read a populated table
C9_Witness ==
    \E p \in Procs :
        /\ pc[p] = "loaded"
        /\ table # {}
        /\ ncompute = 1

Keys(rows) == {Key(x) : x \in rows}

UniqueKeys(rows) == \A x, y \in rows : Key(x) = Key(y) => x = y

\* C10: the table holds at most one row per (station_id, metric, year),
\* no key is ever removed, and a row changes only in a populate commit,
\* which touches only keys of its station and range
C10_KeysOnlyGrow ==
    [][ table' # table =>
          /\ UniqueKeys(table')
          /\ Keys(table) \subseteq Keys(table')
          /\ \E p \in Procs :
                 /\ Committing(p)
                 /\ \A x \in (table' \ table) \cup (table \ table') : InRange(x, req[p])
      ]_vars

\* a second commit has overwritten rows of the first
C10_Witness ==
    /\ ncompute = 2
    /\ \E p \in Procs :
           /\ pc[p] = "finally_done"
           /\ Cardinality(table) = 2 * Len(ALL_METRICS)
           /\ expected_rows(req[p]) = Len(ALL_METRICS)
           /\ Cardinality(StationRows(table, req[p].station_id)) = 2 * Len(ALL_METRICS)

NullIffAbsent(pt) == (pt.value_c = None) <=> (pt.present_days = 0)

\* every point of sequence-valued dict d
PointsOf(d) == UNION { {d[k][j] : j \in DOMAIN d[k]} : k \in DOMAIN d }

\* every point of a response of load_cached_series
ResponsePoints(out) ==
    UNION { {out[i].points[j] : j \in DOMAIN out[i].points} : i \in DOMAIN out }

\* C11: value_c is null exactly when present_days = 0, for every point
\* compute_means has emitted, every row written in a transaction or
\* committed, and every point load_cached_series has returned
C11_NullIffNoSample ==
    /\ \A x \in table : NullIffAbsent(x)
    /\ \A p \in Procs :
           /\ \A pt \in PointsOf(series[p]) : NullIffAbsent(pt)
           /\ \A i \in DOMAIN pending[p] : NullIffAbsent(pending[p][i])
           /\ \A pt \in ResponsePoints(resp[p]) : NullIffAbsent(pt)

\* a response holds a mean, a placeholder and a cached point without
\* samples, and the table a row with a null value
C11_Witness ==
    \E p \in Procs :
        /\ pc[p] = "loaded"
        /\ \E pt \in ResponsePoints(resp[p]) : pt.value_c # None /\ pt.present_days > 0
        /\ \E pt \in ResponsePoints(resp[p]) : pt = Placeholder(pt.year)
        /\ \E pt \in ResponsePoints(resp[p]) : pt.value_c = None /\ pt.expected_days > 0
        /\ \E x \in table : x.value_c = None /\ x.present_days = 0

\* --- the record format and the calendar, as the specification states them ---

LeapYear(y) == y % 4 = 0 /\ (y % 100 # 0 \/ y % 400 = 0)

DaysInMonth(y, m) ==
    IF m = 2 THEN (IF LeapYear(y) THEN 29 ELSE 28)
    ELSE IF m \in {4, 6, 9, 11} THEN 30 ELSE 31

\* the classification table: month -> (bucket year, season)
Bucket(y, m) ==
    IF m \in 3..5 THEN <<y, "spring">>
    ELSE IF m \in 6..8 THEN <<y, "summer">>
    ELSE IF m \in 9..11 THEN <<y, "autumn">>
    ELSE IF m = 12 THEN <<y + 1, "winter">>
    ELSE <<y, "winter">>

Suffixes == {"year", "spring", "summer", "autumn", "winter"}

ElementOf(key) ==
    CHOOSE e \in Elements : \E x \in Suffixes : MetricKey(Lower(e), x) = key

SuffixOf(key) ==
    CHOOSE x \in Suffixes : \E e \in Elements : MetricKey(Lower(e), x) = key

\* the calendar denominator of a metric's point for year y
Denominator(key, y) ==
    CASE SuffixOf(key) = "year" -> IF LeapYear(y) THEN 366 ELSE 365
      [] SuffixOf(key) = "spring" ->
             DaysInMonth(y, 3) + DaysInMonth(y, 4) + DaysInMonth(y, 5)
      [] SuffixOf(key) = "summer" ->
             DaysInMonth(y, 6) + DaysInMonth(y, 7) + DaysInMonth(y, 8)
      [] SuffixOf(key) = "autumn" ->
             DaysInMonth(y, 9) + DaysInMonth(y, 10) + DaysInMonth(y, 11)
      [] SuffixOf(key) = "winter" ->
             DaysInMonth(y - 1, 12) + DaysInMonth(y, 1) + DaysInMonth(y, 2)

\* day group d lies within the line
HasSlot(line, d) == d \in 1..DaysPerLine /\ HeaderLen + d * SlotLen <= line.len

\* the three conditions of a valid day: no sentinel, blank quality flag,
\* a day of the month
ValidDay(line, d) ==
    /\ HasSlot(line, d)
    /\ ~Malformed(line.slots[d].raw)
    /\ int(line.slots[d].raw) # -9999
    /\ line.slots[d].qflag = " "
    /\ int(line.month) \in 1..12
    /\ d <= DaysInMonth(int(line.year), int(line.month))

ValidDays(line) == {d \in 1..DaysPerLine : ValidDay(line, d)}

\* a line with a complete header of numeric year and month fields
Headed(line) ==
    line.len >= HeaderLen /\ ~Malformed(line.year) /\ ~Malformed(line.month)

\* the line belongs to the point of metric key for year y
BelongsTo(line, key, y) ==
    /\ Headed(line)
    /\ line.element = ElementOf(key)
    /\ IF SuffixOf(key) = "year"
       THEN int(line.year) = y
       ELSE /\ int(line.month) \in 1..12
            /\ Bucket(int(line.year), int(line.month)) = <<y, SuffixOf(key)>>

\* the valid samples <<line index, day>> of the file for a point
SamplesOf(file, key, y) ==
    UNION { {<<i, d>> : d \in ValidDays(file[i])} :
              i \in {n \in DOMAIN file : BelongsTo(file[n], key, y)} }

RECURSIVE SumRaw(_, _)
SumRaw(file, S) ==
    IF S = {} THEN 0
    ELSE LET s == CHOOSE x \in S : TRUE
         IN  int(file[s[1]].slots[s[2]].raw) + SumRaw(file, S \ {s})

\* C12: a run that returns yields exactly the 10 metric series, each with
\* one point per year of [start_year, end_year] in ascending order; a year
\* without valid sample has present_days = 0 and value_c = null; and
\* expected_days is the calendar denominator, whatever the file holds
C12_TenDenseSeries ==
    scan_pc = "returned" =>
        /\ DOMAIN means = {ALL_METRICS[i] : i \in DOMAIN ALL_METRICS}
        /\ Cardinality(DOMAIN means) = 10
        /\ \A key \in DOMAIN means :
               /\ DOMAIN means[key] = 1..(span.end_year - span.start_year + 1)
               /\ \A j \in DOMAIN means[key] :
                      LET pt == means[key][j]
                          y == span.start_year + j - 1
                      IN  /\ pt.year = y
                          /\ pt.expected_days = Denominator(key, y)
                          /\ SamplesOf(dly_path, key, y) = {} =>
                                 pt.present_days = 0 /\ pt.value_c = None

\* a run over two years has returned a series with a year of samples and
\* a year without
C12_Witness ==
    /\ scan_pc = "returned"
    /\ span.start_year < span.end_year
    /\ Len(dly_path) = MaxLines
    /\ \E key \in DOMAIN means :
           /\ means[key][1].present_days > 0
           /\ means[key][2].present_days = 0
           /\ means[key][2].value_c = None
           /\ means[key][2].expected_days = 365

\* --- steps of the line loop ---

\* the line the loop reads in this step
CurLine == dly_path[lineno]

\* the loop has read CurLine without error and goes on to the next line
ReadsOn == scan_pc = "reading" /\ lineno <= Len(dly_path) /\ lineno' = lineno + 1

\* CurLine is a line of a requested element with numeric year and month
Requested(line) == Headed(line) /\ line.element \in Elements

SeasonalKeys == DOMAIN accum.seasonal_count \cup DOMAIN accum'.seasonal_count

YearlyKeys == DOMAIN accum.yearly_count \cup DOMAIN accum'.yearly_count

\* what the step adds to a bucket
SeasonalGain(k) == Get(accum'.seasonal_count, k) - Get(accum.seasonal_count, k)
SeasonalSumGain(k) == Get(accum'.seasonal_sum, k) - Get(accum.seasonal_sum, k)
YearlyGain(k) == Get(accum'.yearly_count, k) - Get(accum.yearly_count, k)
YearlySumGain(k) == Get(accum'.yearly_sum, k) - Get(accum.yearly_sum, k)

InSpan(y) == span.start_year <= y /\ y <= span.end_year

\* the seasonal bucket of the classification table, for CurLine
BucketKey(line) ==
    LET b == Bucket(int(line.year), int(line.month))
    IN  <<line.element, b[1], b[2]>>

\* C13 as stated: every valid sample of a month 1..12 is counted in
\* exactly one seasonal bucket, the one of the classification table; here
\* for the lines of the requested years
C13_Original ==
    [][ (/\ ReadsOn
         /\ Requested(CurLine)
         /\ int(CurLine.month) \in 1..12
         /\ InSpan(int(CurLine.year))) =>
            /\ SeasonalGain(BucketKey(CurLine)) = Cardinality(ValidDays(CurLine))
            /\ \A k \in SeasonalKeys \ {BucketKey(CurLine)} : SeasonalGain(k) = 0
      ]_vars

\* C13, amended: the valid samples of a line of month 3-5 go to
\* (Y, spring), 6-8 to (Y, summer), 9-11 to (Y, autumn), 12 to
\* (Y+1, winter), 1-2 to (Y, winter); they are counted in that one bucket
\* when its year lies in [start_year, end_year], and in no seasonal bucket
\* otherwise
C13_SeasonBuckets ==
    [][ (/\ ReadsOn
         /\ Requested(CurLine)
         /\ int(CurLine.month) \in 1..12) =>
            IF InSpan(BucketKey(CurLine)[2])
            THEN /\ SeasonalGain(BucketKey(CurLine)) = Cardinality(ValidDays(CurLine))
                 /\ \A k \in SeasonalKeys \ {BucketKey(CurLine)} : SeasonalGain(k) = 0
            ELSE \A k \in SeasonalKeys : SeasonalGain(k) = 0
      ]_vars

\* a run has counted the December before start_year in start_year's
\* winter, and the December of end_year in no season
C13_Witness ==
    /\ scan_pc = "returned"
    /\ means["tmin_winter"][1].present_days = 2
    /\ means["tmax_year"][Len(means["tmax_year"])].present_days = 1
    /\ \A key \in DOMAIN means :
           (ElementOf(key) = "TMAX" /\ SuffixOf(key) # "year") =>
               \A j \in DOMAIN means[key] : means[key][j].present_days = 0

\* C14: expected_days of a winter point of year Y is days(Dec, Y-1) +
\* days(Jan, Y) + days(Feb, Y), that is 91 when Y is a leap year (2024)
\* and 90 otherwise; of a spring, summer and autumn point it is 92, 92, 91
C14_SeasonDenominators ==
    scan_pc = "returned" =>
        \A key \in DOMAIN means :
            \A j \in DOMAIN means[key] :
                LET pt == means[key][j]
                    days == pt.expected_days
                IN  CASE SuffixOf(key) = "winter" ->
                              /\ days = DaysInMonth(pt.year - 1, 12)
                                          + DaysInMonth(pt.year, 1)
                                          + DaysInMonth(pt.year, 2)
                              /\ days = IF LeapYear(pt.year) THEN 91 ELSE 90
                              /\ pt.year = 2024 => days = 91
                      [] SuffixOf(key) = "spring" -> days = 92
                      [] SuffixOf(key) = "summer" -> days = 92
                      [] SuffixOf(key) = "autumn" -> days = 91
                      [] OTHER -> TRUE

\* a run has returned the winter points of a common year and of a leap
\* year that follows it
C14_Witness ==
    /\ scan_pc = "returned"
    /\ span.start_year < span.end_year
    /\ LeapYear(span.end_year)
    /\ means["tmin_winter"][1].expected_days = 90
    /\ means["tmin_winter"][2].expected_days = 91
    /\ means["tmax_spring"][2].expected_days = 92

\* the line of the example: 10.0, 20.0, -9999, 50.0 flagged X
ExampleLine ==
    Line(span.start_year, 1, "TMAX",
         <<Slot(100), Slot(200), Slot(-9999), Flagged(500)>>)

\* C15: a day slot of a requested-element line contributes to a point
\* exactly when its raw value is not -9999, its quality flag is blank and
\* its day is a day of the month: present_days is the number of these
\* slots among the lines of the point's year or season, value_c their sum
\* in degrees divided by that number (10.0, 20.0, -9999, 50.0 X gives 2 and
\* 15.0)
C15_ValidDaysCounted ==
    scan_pc = "returned" =>
        /\ \A key \in DOMAIN means :
               \A j \in DOMAIN means[key] :
                   LET pt == means[key][j]
                       S == SamplesOf(dly_path, key, pt.year)
                       n == Cardinality(S)
                   IN  /\ pt.present_days = n
                       /\ pt.value_c = IF n = 0 THEN None
                                       ELSE Frac(SumRaw(dly_path, S), 10 * n)
        /\ dly_path = <<ExampleLine>> =>
               /\ means["tmax_year"][1].present_days = 2
               /\ means["tmax_year"][1].value_c = <<15, 1>>

\* the example line and a February line with values on the days 28..31
\* have been aggregated
C15_Witness ==
    /\ scan_pc = "returned"
    /\ Len(dly_path) = 2
    /\ dly_path[1] = ExampleLine
    /\ means["tmax_year"][1].present_days = 2
    /\ means["tmax_winter"][1].value_c = <<15, 1>>
    /\ means["tmin_year"][1].present_days \in {1, 2}
    /\ means["tmin_year"][1].value_c \in {<<28, 1>>, <<57, 2>>}

\* C16: a call waiting at pg_advisory_lock waits only for a call of its
\* own station: while no other call for its station is between lock
\* acquisition and release, its lock key is free
C16_StationsNeverWaitForEachOther ==
    \A p \in Procs :
        (/\ pc[p] = "acquire"
         /\ \A q \in Procs \ {p} :
                pc[q] \in Critical => req[q].station_id # req[p].station_id) =>
            lock[LockKeyOf(p)] = NoProc

\* the first count of p's call, whatever it finds
Counting(p) == Steps(p, {"fast"}, {"returned", "acquire"})

\* C17: a call whose first count finds years*10 rows returns from that
\* count: it never stands at pg_advisory_lock, the lock table is as it
\* was, and the count can be made whoever holds the station's lock
C17_WarmCallTakesNoLock ==
    /\ [](\A p \in Procs :
              (pc[p] = "fast" /\ Warm(table, req[p])) =>
                  ENABLED (FastPath(p) /\ pc'[p] = "returned"))
    /\ [][ \A p \in Procs :
              (Counting(p) /\ Warm(table, req[p])) =>
                  /\ pc'[p] = "returned"
                  /\ lock' = lock
         ]_vars

\* a call has returned from its first count while the call that computed
\* and committed the rows still holds the station's lock
C17_Witness ==
    \E p, q \in Procs :
        /\ p # q
        /\ req[p].station_id = req[q].station_id
        /\ pc[q] = "finally_done"
        /\ lock[LockKeyOf(p)] = q
        /\ ncompute = 1
        /\ pc[p] = "returned"

\* the committed rows, as any statement of a reader finds them: the rows
\* of a station's year are the 10 rows of one run, under one hash, each
\* with the fields computed from the file of that hash
TableWhole ==
    \A s \in Stations, y \in Years :
        LET R == {x \in table : x.station_id = s /\ x.year = y}
        IN  \/ R = {}
            \/ /\ Cardinality(R) = Len(ALL_METRICS)
               /\ \E h \in HashesOf(s) :
                      LET run == Computed[[station_id |-> s, sha256 |-> h,
                                           start_year |-> y, end_year |-> y]]
                      IN  /\ ~run.raised
                          /\ \A x \in R :
                                 /\ x.sha256 = h
                                 /\ PointOf(x) = run.series[x.metric][1]

\* C18: a count or a load that runs beside a populate run finds none or
\* all of the run's writes: the rows written in the open transaction are
\* not in the table, the commit puts all years*10 of them there in one
\* step, the count and the load read the committed rows, and no stored row
\* has its hash from one run and its values from another
C18_RunVisibleAtOnce ==
    /\ []TableWhole
    /\ [][ \A p \in Procs :
              /\ Steps(p, {"upsert"}, {"commit", "finally_aborted"}) => table' = table
              /\ (\/ Steps(p, {"commit"}, {"finally_aborted"})
                  \/ Steps(p, {"finally_aborted"}, {"raised"})) => table' = table
              /\ Committing(p) =>
                     /\ Len(pending[p]) = expected_rows(req[p])
                     /\ \A i \in DOMAIN pending[p] : pending[p][i] \in table'
                     /\ \A x \in table' \ table :
                            \E i \in DOMAIN pending[p] : x = pending[p][i]
              /\ Counting(p) => (pc'[p] = "returned" <=> Warm(table, req[p]))
              /\ Loading(p) =>
                     \A i \in DOMAIN resp'[p] :
                         \A j \in DOMAIN resp'[p][i].points :
                             LET pt == resp'[p][i].points[j]
                             IN  \/ pt = Placeholder(pt.year)
                                 \/ \E x \in table :
                                        /\ Key(x) = <<req[p].station_id,
                                                      resp'[p][i].key, pt.year>>
                                        /\ x.sha256 = req[p].sha256
                                        /\ pt = PointOf(x)
         ]_vars

\* a load has answered from the rows of one hash while another call for
\* the station holds all its rows for the same year, under another hash,
\* in an open transaction
C18_Witness ==
    \E p, q \in Procs :
        /\ p # q
        /\ pc[p] = "loaded"
        /\ pc[q] = "commit"
        /\ req[q].station_id = req[p].station_id
        /\ req[q].sha256 # req[p].sha256
        /\ Len(pending[q]) = expected_rows(req[q])
        /\ \E pt \in ResponsePoints(resp[p]) :
               /\ pt.present_days > 0
               /\ \E i \in DOMAIN pending[q] :
                      /\ pending[q][i].year = pt.year
                      /\ pending[q][i].present_days # pt.present_days

\* some field of the file is no number
HasMalformedField(file) ==
    \E i \in DOMAIN file :
        \/ Malformed(file[i].year)
        \/ Malformed(file[i].month)
        \/ \E d \in DOMAIN file[i].slots : Malformed(file[i].slots[d].raw)

\* a field int() is applied to is no number: the year or month of a line of
\* 21 characters or more, or a day value, within the line, of a requested
\* element's line of the scan window
ReadsBadField(line, a, b) ==
    IF line.len < HeaderLen THEN FALSE
    ELSE IF Malformed(line.year) \/ Malformed(line.month) THEN TRUE
    ELSE /\ line.element \in Elements
         /\ a - 1 <= int(line.year)
         /\ int(line.year) <= b
         /\ \E d \in 1..DaysPerLine :
                HasSlot(line, d) /\ Malformed(line.slots[d].raw)

ReadsMalformed(r) ==
    \E i \in DOMAIN Content(r.sha256) :
        ReadsBadField(Content(r.sha256)[i], r.start_year, r.end_year)

\* C19 as stated: compute_means returns no series for a file that holds a
\* malformed year, month or day-value field
C19_Original ==
    \A p \in Procs :
        pc[p] = "upsert" => ~HasMalformedField(Content(req[p].sha256))

\* C19, amended: compute_means raises exactly when it reads a malformed
\* field (the year or month of a line of 21 characters or more, a day
\* value of a requested-element line of the scan window) and then returns
\* no series; the populate call goes through its finally clause to the
\* raise, commits no row and releases the lock
C19_MalformedFieldAborts ==
    /\ [](\A p \in Procs :
              /\ pc[p] = "compute" =>
                     (Computed[req[p]].raised <=> ReadsMalformed(req[p]))
              /\ pc[p] \in {"upsert", "commit", "finally_done"} =>
                     ~ReadsMalformed(req[p]))
    /\ [][ \A p \in Procs :
              /\ (Steps(p, {"compute"}, {"upsert", "finally_raise"})
                    /\ ReadsMalformed(req[p])) =>
                     /\ pc'[p] = "finally_raise"
                     /\ series'[p] = <<>>
                     /\ pending'[p] = <<>>
                     /\ table' = table
              /\ Steps(p, {"finally_raise"}, {"raised"}) =>
                     /\ table' = table
                     /\ pending'[p] = <<>>
                     /\ lock'[LockKeyOf(p)] = NoProc
         ]_vars

\* the only call so far read a file with a year field that is no number
\* and has raised; no row is stored and no lock is held
C19_Witness ==
    \E p \in Procs :
        /\ ncalls = 1
        /\ ncompute = 1
        /\ pc[p] = "raised"
        /\ Malformed(Content(req[p].sha256)[2].year)
        /\ ReadsMalformed(req[p])
        /\ table = {}
        /\ \A k \in LockKeys : lock[k] = NoProc

\* the loop takes CurLine in this step
Reading == scan_pc = "reading" /\ lineno <= Len(dly_path) /\ scanVars' # scanVars

\* CurLine has its element field, and the element is not requested
OtherElement(line) == line.len >= HeaderLen /\ line.element \notin Elements

\* the step leaves every sum and count as it is
NothingCounted ==
    /\ accum'.yearly_sum = accum.yearly_sum
    /\ accum'.yearly_count = accum.yearly_count
    /\ accum'.seasonal_sum = accum.seasonal_sum
    /\ accum'.seasonal_count = accum.seasonal_count

\* C20 as stated: a line of an element that is not requested is skipped
\* whatever its other fields contain
C20_Original ==
    [][ (Reading /\ OtherElement(CurLine)) =>
            /\ NothingCounted
            /\ scan_pc' = "reading"
            /\ lineno' = lineno + 1
      ]_vars

\* C20, amended: a line of an element that is not requested, with numeric
\* year and month fields, is skipped whatever its day fields contain: no
\* sum or count changes, no error, the loop goes on; a year or month field
\* that is no number raises before the element is looked at, and nothing is
\* counted
C20_OtherElementsSkipped ==
    [][ (Reading /\ OtherElement(CurLine)) =>
            /\ NothingCounted
            /\ IF Malformed(CurLine.year) \/ Malformed(CurLine.month)
               THEN scan_pc' = "raised" /\ lineno' = lineno
               ELSE scan_pc' = "reading" /\ lineno' = lineno + 1 /\ accum' = accum
      ]_vars

\* a line of another element with a day value that is no number has been
\* skipped, and the line after it aggregated
C20_Witness ==
    /\ scan_pc = "returned"
    /\ Len(dly_path) = 2
    /\ OtherElement(dly_path[1])
    /\ \E d \in DOMAIN dly_path[1].slots : Malformed(dly_path[1].slots[d].raw)
    /\ \E key \in DOMAIN means : means[key][1].present_days > 0

\* the line is read by the day loop: a requested element's line with
\* numeric year and month, of a year in [start_year - 1, end_year]
InWindow(line) ==
    /\ Requested(line)
    /\ span.start_year - 1 <= int(line.year)
    /\ int(line.year) <= span.end_year

\* a day value within the line is no number
HasBadDay(line) ==
    \E d \in 1..DaysPerLine : HasSlot(line, d) /\ Malformed(line.slots[d].raw)

\* C21 as stated: a requested-element line inside the scan window whose
\* month is outside 1..12 makes compute_means raise
C21_Original ==
    [][ (Reading /\ InWindow(CurLine) /\ int(CurLine.month) \notin 1..12) =>
            scan_pc' = "raised"
      ]_vars

\* C21, amended: a requested-element line inside the scan window whose
\* month is outside 1..12 does not make compute_means raise: none of its
\* days is counted in any sum or count and the loop goes on with the next
\* line; only a day value of the line that is no number raises, as on any
\* other line
C21_IllegalMonthSkipped ==
    [][ (Reading /\ InWindow(CurLine) /\ int(CurLine.month) \notin 1..12) =>
            /\ NothingCounted
            /\ IF HasBadDay(CurLine)
               THEN scan_pc' = "raised" /\ lineno' = lineno
               ELSE scan_pc' = "reading" /\ lineno' = lineno + 1 /\ accum' = accum
      ]_vars

\* a line of month 13 or 0 with a valid day value has been passed, the
\* line after it aggregated, and the run has returned
C21_Witness ==
    /\ scan_pc = "returned"
    /\ Len(dly_path) = 2
    /\ InWindow(dly_path[1])
    /\ int(dly_path[1].month) \notin 1..12
    /\ ~Malformed(dly_path[1].slots[1].raw)
    /\ int(dly_path[1].slots[1].raw) # -9999
    /\ \A key \in DOMAIN means :
           ElementOf(key) = dly_path[1].element =>
               means[key][1].present_days = 0
    /\ \E key \in DOMAIN means : means[key][1].present_days > 0

\* the requests for the file of r over other year ranges
OtherRanges(r) ==
    {o \in Requests : /\ o.station_id = r.station_id
                      /\ o.sha256 = r.sha256
                      /\ <<o.start_year, o.end_year>> # <<r.start_year, r.end_year>>}

\* the point of metric key for year y in the series of a run from start
PointFor(out, key, y, start) == out[key][y - start + 1]

\* C22: the point compute_means yields for a (metric, year) from a file is
\* the same for every year range that holds the year, for the runs that
\* yield points; and a populate run that writes a key stored under its own
\* hash writes the fields the key holds
C22_RangeIndependent ==
    /\ [](\A p \in Procs :
              pc[p] = "upsert" =>
                  \A o \in OtherRanges(req[p]) :
                      ~Computed[o].raised =>
                          \A key \in DOMAIN series[p], y \in Years :
                              (/\ req[p].start_year <= y /\ y <= req[p].end_year
                               /\ o.start_year <= y /\ y <= o.end_year) =>
                                  PointFor(series[p], key, y, req[p].start_year)
                                    = PointFor(Computed[o].series, key, y, o.start_year))
    /\ [][ \A p \in Procs :
              Committing(p) =>
                  \A i \in DOMAIN pending[p] :
                      \A x \in table :
                          (Key(x) = Key(pending[p][i])
                             /\ x.sha256 = pending[p][i].sha256) =>
                              x = pending[p][i]
         ]_vars

\* a run over both years has committed, under the hash of an earlier run
\* over the second year alone, a winter point of the second year that
\* counts the December before it
C22_Witness ==
    \E p, q \in Procs :
        /\ p # q
        /\ pc[p] = "finally_done"
        /\ pc[q] \in {"returned", "loaded"}
        /\ ncompute = 2
        /\ req[q].station_id = req[p].station_id
        /\ req[q].sha256 = req[p].sha256
        /\ req[q].start_year = FirstYear + 1
        /\ req[p].start_year = FirstYear
        /\ req[p].end_year = FirstYear + 1
        /\ \E x \in table :
               /\ x.station_id = req[p].station_id
               /\ x.year = FirstYear + 1
               /\ x.metric = "tmin_winter"
               /\ x.present_days > 0

\* the sum, in tenths, of the valid day values of a line
LineSum(line) == SumRaw(<<line>>, {<<1, d>> : d \in ValidDays(line)})

\* the step counts the valid days of CurLine in the seasonal bucket k and
\* in no other seasonal bucket
OnlySeasonal(k) ==
    /\ SeasonalGain(k) = Cardinality(ValidDays(CurLine))
    /\ SeasonalSumGain(k) = LineSum(CurLine)
    /\ \A o \in SeasonalKeys \ {k} : SeasonalGain(o) = 0 /\ SeasonalSumGain(o) = 0

\* the step counts the valid days of CurLine in the yearly bucket k and in
\* no other yearly bucket
OnlyYearly(k) ==
    /\ YearlyGain(k) = Cardinality(ValidDays(CurLine))
    /\ YearlySumGain(k) = LineSum(CurLine)
    /\ \A o \in YearlyKeys \ {k} : YearlyGain(o) = 0 /\ YearlySumGain(o) = 0

NoSeasonal == \A o \in SeasonalKeys : SeasonalGain(o) = 0 /\ SeasonalSumGain(o) = 0

NoYearly == \A o \in YearlyKeys : YearlyGain(o) = 0 /\ YearlySumGain(o) = 0

\* C23: of the lines of the requested elements, the valid December days of
\* start_year - 1 are counted in start_year's winter and in no yearly
\* bucket; the days of months 1-11 of start_year - 1 are counted nowhere;
\* the valid December days of end_year are counted in end_year's yearly
\* bucket and in no seasonal one; the lines of years outside
\* [start_year - 1, end_year] are counted nowhere
C23_ScanWindow ==
    [][ (ReadsOn /\ Requested(CurLine)) =>
            LET y == int(CurLine.year)
                m == int(CurLine.month)
                e == CurLine.element
            IN  /\ (y = span.start_year - 1 /\ m = 12) =>
                       OnlySeasonal(<<e, span.start_year, "winter">>) /\ NoYearly
                /\ (y = span.start_year - 1 /\ m \in 1..11) => accum' = accum
                /\ (y = span.end_year /\ m = 12) =>
                       OnlyYearly(<<e, span.end_year>>) /\ NoSeasonal
                /\ (y < span.start_year - 1 \/ y > span.end_year) => accum' = accum
      ]_vars

\* a run has returned from a file with a line of June and a line of
\* December of the year before start_year: the June days are in no point,
\* the December days in the first winter point and in no yearly point
C23_Witness ==
    /\ scan_pc = "returned"
    /\ Len(dly_path) = 2
    /\ \E i, j \in DOMAIN dly_path :
           LET early == dly_path[i]
               dec == dly_path[j]
           IN  /\ Requested(early) /\ Requested(dec)
               /\ int(early.year) = span.start_year - 1
               /\ int(early.month) \in 1..11
               /\ ValidDays(early) # {}
               /\ int(dec.year) = span.start_year - 1
               /\ int(dec.month) = 12
               /\ early.element # dec.element
               /\ \A key \in DOMAIN means :
                      \A n \in DOMAIN means[key] :
                          means[key][n].present_days =
                              IF key = MetricKey(Lower(dec.element), "winter") /\ n = 1
                              THEN Cardinality(ValidDays(dec))
                              ELSE 0
               /\ Cardinality(ValidDays(dec)) = 2

\* --- the commit log ---

\* a population run for r has committed
Committed(r) == \E i \in DOMAIN commits : commits[i] = r

\* a population run for r has committed, and no run for the station under
\* a different hash has committed since
Fresh(r) ==
    \E i \in DOMAIN commits :
        /\ commits[i] = r
        /\ \A j \in DOMAIN commits :
               j > i => \/ commits[j].station_id # r.station_id
                        \/ commits[j].sha256 = r.sha256

\* the recheck under the lock, whatever it finds
Rechecking(p) == Steps(p, {"recheck"}, {"finally_return", "compute"})

\* C24 as stated: every caller that acquires the lock for (station, hash,
\* range) after a successful run for it has released finds the cache warm
\* in its recheck
C24_Original ==
    [][ \A p \in Procs :
           (Rechecking(p) /\ Committed(req[p])) =>
               Warm(table, req[p]) /\ pc'[p] = "finally_return"
      ]_vars

\* C24, amended: a successful run commits its rows while it holds the
\* station lock and they are in the table when it releases; every caller
\* that acquires the lock for the same (station, hash, range) after that
\* release, no run for the station under a different hash having committed
\* since, finds count >= years*10 in its recheck, releases the lock and
\* returns without computing or writing
C24_CommitBeforeRelease ==
    [][ \A p \in Procs :
           /\ Committing(p) =>
                  /\ lock[LockKeyOf(p)] = p
                  /\ lock' = lock
                  /\ Warm(table', req[p])
           /\ Steps(p, {"finally_done"}, {"returned"}) =>
                  /\ Committed(req[p])
                  /\ Warm(table, req[p])
                  /\ lock[LockKeyOf(p)] = p
                  /\ lock'[LockKeyOf(p)] = NoProc
           /\ (Rechecking(p) /\ Fresh(req[p])) =>
                  /\ \A q \in Procs : ~(pc[q] = "finally_done" /\ req[q] = req[p])
                  /\ Warm(table, req[p])
                  /\ pc'[p] = "finally_return"
                  /\ table' = table /\ ncompute' = ncompute
           /\ Steps(p, {"finally_return"}, {"returned"}) =>
                  /\ lock'[LockKeyOf(p)] = NoProc
                  /\ table' = table /\ ncompute' = ncompute /\ commits' = commits
                  /\ pending[p] = <<>>
      ]_vars

\* two callers for one request have found the cache cold in their first
\* count: one has computed and committed, the other has got the lock
\* after its release, has found the rows in its recheck and stands before
\* the unlock without having computed
C24_Witness ==
    \E p, q \in Procs :
        /\ p # q
        /\ pc[p] = "finally_return"
        /\ Fresh(req[p])
        /\ Len(commits) = 2
        /\ commits[2] = req[q]
        /\ req[q] = req[p]
        /\ ncompute = 1
        /\ lock[LockKeyOf(p)] = p

\* request r is for the station and hash of o, over a range within o's
Within(r, o) ==
    /\ r.station_id = o.station_id
    /\ r.sha256 = o.sha256
    /\ o.start_year <= r.start_year
    /\ r.end_year <= o.end_year

\* request r is for the station and hash of o, over a range that holds
\* o's and a year more
Extends(r, o) ==
    /\ r.station_id = o.station_id
    /\ r.sha256 = o.sha256
    /\ r.start_year <= o.start_year
    /\ o.end_year <= r.end_year
    /\ (r.start_year < o.start_year \/ r.end_year > o.end_year)

\* every (metric, year) of the request has a row under the request's hash
Cached(rows, r) ==
    \A y \in r.start_year..r.end_year, i \in DOMAIN ALL_METRICS :
        \E x \in rows : Key(x) = <<r.station_id, ALL_METRICS[i], y>> /\ x.sha256 = r.sha256

\* C25 as stated: after a run for (S, H, [a, b]) has committed, and none for
\* S under a different hash since, a populate for S and H over a range
\* that extends beyond [a, b] is not served from the cache
C25_Original ==
    [][ \A p \in Procs :
           (Counting(p) /\ \E o \in Requests : Fresh(o) /\ Extends(req[p], o)) =>
               pc'[p] = "acquire"
      ]_vars

\* C25, amended: after a run for (S, H, [a, b]) has committed, and none for
\* S under a different hash since, a populate for (S, H, [c, d]) with
\* a <= c <= d <= b returns from its first count, without lock, computation
\* or write; a populate over a range with a year that has no rows under H
\* goes on to the lock, and the run that computes it computes the whole
\* range and upserts all years*10 rows, the rows of the years already
\* cached among them
C25_SubRangeWarm ==
    [][ \A p \in Procs :
           /\ (Counting(p) /\ \E o \in Requests : Fresh(o) /\ Within(req[p], o)) =>
                  /\ pc'[p] = "returned"
                  /\ UNCHANGED <<table, lock, pending, series, ncompute, commits>>
           /\ Counting(p) => (pc'[p] = "returned" <=> Cached(table, req[p]))
           /\ Steps(p, {"compute"}, {"upsert"}) =>
                  \A key \in DOMAIN series'[p] :
                      Len(series'[p][key]) = req[p].end_year - req[p].start_year + 1
           /\ Committing(p) =>
                  /\ Len(pending[p]) = expected_rows(req[p])
                  /\ \A y \in req[p].start_year..req[p].end_year, i \in DOMAIN ALL_METRICS :
                         \E n \in DOMAIN pending[p] :
                             /\ Key(pending[p][n]) = <<req[p].station_id, ALL_METRICS[i], y>>
                             /\ pending[p][n].sha256 = req[p].sha256
                             /\ pending[p][n] \in table'
                  /\ Cached(table', req[p])
      ]_vars

\* the store held the first year; a run over both years has computed once
\* and committed 20 rows, the first year's among them; a call for the
\* second year alone has then returned from its first count
C25_Witness ==
    \E p \in Procs :
        /\ pc[p] = "returned"
        /\ Len(commits) = 2
        /\ Extends(commits[2], commits[1])
        /\ commits[1].start_year = commits[1].end_year
        /\ Within(req[p], commits[2])
        /\ req[p].start_year > commits[1].end_year
        /\ ncalls = 2
        /\ ncompute = 1
        /\ Cardinality(table) = 2 * Len(ALL_METRICS)

\* C26 as stated: in the flow populate(S, H, R), then
\* load_series(S, H, R, metrics), whatever other populate calls for the
\* station run beside it, under any hashes, no placeholder (null, 0, 0) is
\* returned once populate has returned normally
C26_Original ==
    \A p \in Procs :
        pc[p] = "loaded" =>
            \A pt \in ResponsePoints(resp[p]) : pt # Placeholder(pt.year)

\* a run for the station of p's request commits under a different hash
Rehashing(p) ==
    \E q \in Procs :
        /\ Committing(q)
        /\ req[q].station_id = req[p].station_id
        /\ req[q].sha256 # req[p].sha256

\* C26, amended: when populate(S, H, R) returns normally every
\* (metric, year) of R has a row under H; the rows stay while no populate
\* for S under a different hash commits; and a load that finds them
\* returns, for every point, the fields of the cached row under H and no
\* placeholder.  So the flow returns no placeholder under any interleaving
\* with populate calls for S under H, over any ranges
C26_NoPlaceholderUnlessRehashed ==
    [][ \A p \in Procs :
           /\ (pc[p] # "returned" /\ pc'[p] = "returned") => Cached(table', req'[p])
           /\ (pc[p] = "returned" /\ pc'[p] = "returned"
                 /\ Cached(table, req[p]) /\ ~Rehashing(p)) =>
                  Cached(table', req[p])
           /\ (Loading(p) /\ Cached(table, req[p])) =>
                  \A i \in DOMAIN resp'[p] :
                      \A j \in DOMAIN resp'[p][i].points :
                          LET pt == resp'[p][i].points[j]
                          IN  /\ pt # Placeholder(pt.year)
                              /\ \E x \in table :
                                     /\ Key(x) = <<req[p].station_id, resp'[p][i].key,
                                                   req[p].start_year + j - 1>>
                                     /\ x.sha256 = req[p].sha256
                                     /\ pt = PointOf(x)
      ]_vars

\* a load over two years has returned cached points only, while a second
\* call for the station under the same hash, over one of the years, has
\* waited for the lock and found the rows in its recheck
C26_Witness ==
    \E p, q \in Procs :
        /\ p # q
        /\ pc[p] = "loaded"
        /\ req[p].start_year < req[p].end_year
        /\ \A pt \in ResponsePoints(resp[p]) : pt # Placeholder(pt.year)
        /\ \E pt \in ResponsePoints(resp[p]) : pt.present_days > 0
        /\ pc[q] = "finally_return"
        /\ req[q].station_id = req[p].station_id
        /\ req[q].sha256 = req[p].sha256
        /\ req[q].start_year = req[q].end_year
        /\ ncompute = 1

\* no two lines of the file are of the same element, year and month
OneLinePerMonth(file) ==
    \A i, j \in DOMAIN file :
        (/\ i # j
         /\ Headed(file[i]) /\ Headed(file[j])
         /\ file[i].element = file[j].element
         /\ file[i].year = file[j].year) =>
            file[i].month # file[j].month

\* every point of the series has present_days <= expected_days
CoverageAtMostOne ==
    \A key \in DOMAIN means :
        \A j \in DOMAIN means[key] :
            means[key][j].present_days <= means[key][j].expected_days

\* C27 as stated: for any input file, every point compute_means emits has
\* present_days <= expected_days
C27_Original == scan_pc = "returned" => CoverageAtMostOne

\* C27, amended: for any input file with at most one line per element,
\* year and month, every point compute_means emits has
\* present_days <= expected_days
C27_CoverageAtMostOne ==
    (scan_pc = "returned" /\ OneLinePerMonth(dly_path)) => CoverageAtMostOne

\* a run has returned from the three whole months of the first winter:
\* the winter point counts every day of the season
C27_Witness ==
    /\ scan_pc = "returned"
    /\ Len(dly_path) = 3
    /\ OneLinePerMonth(dly_path)
    /\ means["tmin_winter"][1].present_days = means["tmin_winter"][1].expected_days
    /\ means["tmin_winter"][1].present_days \in {90, 91}
    /\ means["tmin_year"][1].present_days \in {59, 60}

\* ------------------------------------------------------------------------
\* C28
\* ------------------------------------------------------------------------

\* inside ensure_cached_metrics
InCall == {"fast", "acquire"} \cup Critical

Ended == {"returned", "raised"}

HeldBy(p) == {k \in LockKeys : lock[k] = p}

\* C28: with a fair lock and terminating computations, every populate call
\* eventually returns or raises: a call holds at most one lock key, and
\* while it holds it its next statement waits for nothing, so no calls,
\* whatever their stations, hashes and ranges, wait for each other for
\* ever; a caller waiting for its lock leaves the wait only as the holder
\* of the lock (or raising, its connection lost), and it does leave it
C28_EveryCallEnds ==
    /\ [](\A p \in Procs :
              /\ Cardinality(HeldBy(p)) <= 1
              /\ pc[p] \in Critical => HeldBy(p) = {LockKeyOf(p)} /\ ENABLED Proceed(p))
    /\ [][\A p \in Procs :
              Steps(p, {"acquire"}, (InCall \cup Ended) \ {"acquire"}) =>
                  \/ pc'[p] = "recheck" /\ lock'[LockKeyOf(p)] = p
                  \/ pc'[p] = "raised"]_vars
    /\ \A p \in Procs : []<>(pc[p] # "acquire")
    /\ \A p \in Procs : []<>(pc[p] \notin InCall)

\* a caller waits for the lock of its station while the holder, a call for
\* another hash or range, has had its transaction aborted by the store
C28_Witness ==
    \E p, q \in Procs :
        /\ p # q
        /\ pc[p] = "acquire"
        /\ lock[LockKeyOf(p)] = q
        /\ pc[q] = "finally_aborted"
        /\ req[q] # req[p]

====
